---- MODULE Spec2Model ----
(***************************************************************************)
(* Model of the file-pairing and sample-processing logic of the DNAnexus   *)
(* command generators (modules/dx_command_generator.py,                    *)
(* modules/workflow.py and the stand-alone scripts that duplicate them).   *)
(*                                                                         *)
(* Python strings are modelled as sequences of one-character strings, so   *)
(* that endswith, slicing, replace, regular-expression search and the      *)
(* code-point ordering used by sorted() are computed, not assumed.         *)
(***************************************************************************)
EXTENDS Integers, Sequences, FiniteSets, TLC

(* ------------------------------ bounds --------------------------------- *)

\* Longest file listing returned by one "dx find data" query.
MaxFiles == 2

\* Longest sample list read from a manifest.
MaxSamples == 2

\* Longest run manifest, in lines.
MaxLines == 2

\* Most pan numbers in one run.
MaxPans == 3

(* ------------------------- Python str primitives ----------------------- *)

\* The printable ASCII characters in code-point order (32 .. 126); the
\* quote, backslash and backtick, which no file or sample name holds, are
\* spelled out.
Ascii ==
  <<" ", "!", "<quote>", "#", "$", "%", "&", "'", "(", ")", "*", "+", ",", "-", ".", "/",
    "0", "1", "2", "3", "4", "5", "6", "7", "8", "9", ":", ";", "<", "=", ">", "?",
    "@", "A", "B", "C", "D", "E", "F", "G", "H", "I", "J", "K", "L", "M", "N", "O",
    "P", "Q", "R", "S", "T", "U", "V", "W", "X", "Y", "Z", "[", "<backslash>", "]", "^", "_",
    "<backtick>", "a", "b", "c", "d", "e", "f", "g", "h", "i", "j", "k", "l", "m", "n", "o",
    "p", "q", "r", "s", "t", "u", "v", "w", "x", "y", "z", "{", "|", "}", "~">>

\* ord(c): the code point of a character.
Ord(c) == 31 + CHOOSE i \in 1..Len(Ascii) : Ascii[i] = c

Min(a, b) == IF a <= b THEN a ELSE b

\* a < b on Python str: lexicographic by code point, a proper prefix first.
StrLess(a, b) ==
  \E k \in 0..Min(Len(a), Len(b)) :
     /\ \A j \in 1..k : a[j] = b[j]
     /\ \/ k = Len(a) /\ k < Len(b)
        \/ k < Len(a) /\ k < Len(b) /\ Ord(a[k + 1]) < Ord(b[k + 1])

\* s.endswith(suffix)
EndsWith(s, suffix) ==
  /\ Len(suffix) <= Len(s)
  /\ SubSeq(s, Len(s) - Len(suffix) + 1, Len(s)) = suffix

\* s[:-n]  (s[:-0] is s[:0], the empty string)
DropLast(s, n) ==
  IF n = 0 \/ n >= Len(s) THEN <<>> ELSE SubSeq(s, 1, Len(s) - n)

\* s starts with t at position i (1-based)
MatchAt(s, i, t) ==
  /\ i + Len(t) - 1 <= Len(s)
  /\ SubSeq(s, i, i + Len(t) - 1) = t

\* s.replace(old, new): every non-overlapping occurrence, left to right.
RECURSIVE ReplaceFrom(_, _, _, _)
ReplaceFrom(s, i, old, new) ==
  IF i > Len(s) THEN <<>>
  ELSE IF MatchAt(s, i, old) THEN new \o ReplaceFrom(s, i + Len(old), old, new)
  ELSE <<s[i]>> \o ReplaceFrom(s, i + 1, old, new)

Replace(s, old, new) == ReplaceFrom(s, 1, old, new)

(* ------------------------- Python dict primitives ---------------------- *)
\* A dict is the sequence of its <<key, value>> items in insertion order.

DictHas(d, k) == \E i \in 1..Len(d) : d[i][1] = k

DictGet(d, k) == d[CHOOSE i \in 1..Len(d) : d[i][1] = k][2]

DictKeys(d) == {d[i][1] : i \in 1..Len(d)}

\* Mutant: an existing key keeps the value it has.
DictSet_KeepFirst(d, k, v) ==
  IF DictHas(d, k) THEN d ELSE Append(d, <<k, v>>)

\* d[k] = v : an existing key keeps its position and takes the new value.
DictSet(d, k, v) ==
  IF DictHas(d, k)
  THEN [i \in 1..Len(d) |-> IF d[i][1] = k THEN <<k, v>> ELSE d[i]]
  ELSE Append(d, <<k, v>>)

RemoveAt(s, i) == SubSeq(s, 1, i - 1) \o SubSeq(s, i + 1, Len(s))

\* Mutant: the items are taken in insertion order, sorted() forgotten.
SortedItems_Unsorted(items) == items

\* sorted(d.items()): ascending by key (keys of a dict are unique, so the
\* second tuple component never decides).
RECURSIVE SortedItems(_)
SortedItems(items) ==
  IF items = <<>> THEN <<>>
  ELSE LET m == CHOOSE i \in 1..Len(items) :
                  \A j \in 1..Len(items) : j # i => StrLess(items[i][1], items[j][1])
       IN <<items[m]>> \o SortedItems(RemoveAt(items, m))

(* ------------------------------ file names ------------------------------ *)
DotBam == <<".", "b", "a", "m">>
DotBamBai == <<".", "b", "a", "m", ".", "b", "a", "i">>
R1FastqGz == <<"_", "R", "1", ".", "f", "a", "s", "t", "q", ".", "g", "z">>
R2FastqGz == <<"_", "R", "2", ".", "f", "a", "s", "t", "q", ".", "g", "z">>
RHashFastqGz == <<"_", "R", "#", ".", "f", "a", "s", "t", "q", ".", "g", "z">>
DotFastqGz == <<".", "f", "a", "s", "t", "q", ".", "g", "z">>
R1Token == <<"_", "R", "1", ".">>
R2Token == <<"_", "R", "2", ".">>
RHashToken == <<"_", "R", "#", ".">>
S1markdupBam == <<"S", "1", "m", "a", "r", "k", "d", "u", "p", ".", "b", "a", "m">>
S2markdupBam == <<"S", "2", "m", "a", "r", "k", "d", "u", "p", ".", "b", "a", "m">>
S1markdupBai == <<"S", "1", "m", "a", "r", "k", "d", "u", "p", ".", "b", "a", "m", ".", "b", "a", "i">>
S2markdupBai == <<"S", "2", "m", "a", "r", "k", "d", "u", "p", ".", "b", "a", "m", ".", "b", "a", "i">>
A_R1 == <<"A", "_", "R", "1", ".", "f", "a", "s", "t", "q", ".", "g", "z">>
A_R2 == <<"A", "_", "R", "2", ".", "f", "a", "s", "t", "q", ".", "g", "z">>
B_R1 == <<"B", "_", "R", "1", ".", "f", "a", "s", "t", "q", ".", "g", "z">>
B_R2 == <<"B", "_", "R", "2", ".", "f", "a", "s", "t", "q", ".", "g", "z">>

\* len(".fastq.gz"), the slice width hard-coded by the FASTQ pairer.
FastqGzLen == 9

\* The opaque file ids handed out by the platform, all different.
FileIds == <<"f1", "f2", "f3", "f4", "f5", "f6", "f7", "f8", "f9", "f10", "f11", "f12">>

(* ------------------------------- state ---------------------------------- *)

VARIABLES
  primary_files_data,     \* result of the first file query
  secondary_files_data,   \* result of the second file query
  primary_suffix,
  secondary_suffix,
  base_name_transform,    \* "none" | "identity" | "r1r2"
  pair_pc,                \* "call" | "returned" : _pair_dx_files
  pair_result,            \* what _pair_dx_files computed and printed
  fastq_pc,               \* "call" | "returned" : _find_fastq_pairs
  fastq_result,
  legacy_pc,              \* "call", or the stand-alone pairer that returned
  legacy_result,
  program,                \* the file whose generate() runs
  sys_argv,               \* the command line, program name first
  stdin_line,             \* what is typed at the prompt
  project_id,
  generate_pc,            \* where generate() stands
  dx_find_project,        \* the --project arguments of the file searches
  generated_commands      \* the coverage commands written to the script

\* The state of a run of generate().
genVars == <<program, sys_argv, stdin_line, project_id, generate_pc,
             dx_find_project, generated_commands>>

pairVars == <<primary_files_data, secondary_files_data, primary_suffix,
              secondary_suffix, base_name_transform, pair_pc, pair_result,
              fastq_pc, fastq_result, legacy_pc, legacy_result, genVars>>

(* ------------------------ DXCommandGenerator ---------------------------- *)

\* Mutant: any transform that is given is taken for the R1/R2 one.
ApplyTransform_AnyAsR1R2(transform, file_name) ==
  CASE transform = "none" -> file_name
    [] OTHER              ->
         Replace(Replace(file_name, R1Token, RHashToken), R2Token, RHashToken)

\* base_name_transform(file_name); None leaves the name alone.  The R1/R2
\* transform maps both read tokens to the placeholder "_R#.".
ApplyTransform(transform, file_name) ==
  CASE transform = "none"     -> file_name
    [] transform = "identity" -> file_name
    [] transform = "r1r2"     ->
         Replace(Replace(file_name, R1Token, RHashToken), R2Token, RHashToken)

Warning(kind, side, id, name) ==
  [kind |-> kind, side |-> side, id |-> id, name |-> name]

\* Mutant: the suffix is tested on the name as listed, before the transform.
RECURSIVE ScanFiles_SuffixBeforeTransform(_, _, _, _, _, _)
ScanFiles_SuffixBeforeTransform(files_data, i, suffix, transform, side, acc) ==
  IF i > Len(files_data) THEN acc
  ELSE
    LET item == files_data[i] IN
    IF ~item.has_id \/ ~item.has_name
    THEN ScanFiles_SuffixBeforeTransform(files_data, i + 1, suffix, transform, side,
           [acc EXCEPT !.stderr =
              Append(@, Warning("missing_key", side, item.id, item.name))])
    ELSE
      LET file_name == ApplyTransform(transform, item.name) IN
      IF EndsWith(item.name, suffix)
      THEN ScanFiles_SuffixBeforeTransform(files_data, i + 1, suffix, transform, side,
             [acc EXCEPT !.files =
                DictSet(@, DropLast(file_name, Len(suffix)), item.id)])
      ELSE ScanFiles_SuffixBeforeTransform(files_data, i + 1, suffix, transform, side,
             [acc EXCEPT !.stderr =
                Append(@, Warning("suffix_mismatch", side, item.id, file_name))])

\* Mutant: a record failing the suffix test is skipped without a warning.
RECURSIVE ScanFiles_SilentSkip(_, _, _, _, _, _)
ScanFiles_SilentSkip(files_data, i, suffix, transform, side, acc) ==
  IF i > Len(files_data) THEN acc
  ELSE
    LET item == files_data[i] IN
    IF ~item.has_id \/ ~item.has_name
    THEN ScanFiles_SilentSkip(files_data, i + 1, suffix, transform, side,
           [acc EXCEPT !.stderr =
              Append(@, Warning("missing_key", side, item.id, item.name))])
    ELSE
      LET file_name == ApplyTransform(transform, item.name) IN
      IF EndsWith(file_name, suffix)
      THEN ScanFiles_SilentSkip(files_data, i + 1, suffix, transform, side,
             [acc EXCEPT !.files =
                DictSet(@, DropLast(file_name, Len(suffix)), item.id)])
      ELSE ScanFiles_SilentSkip(files_data, i + 1, suffix, transform, side, acc)

\* Mutant: a record failing the suffix test is warned about and entered in
\* the dict all the same, under its whole name.
RECURSIVE ScanFiles_EnterMismatched(_, _, _, _, _, _)
ScanFiles_EnterMismatched(files_data, i, suffix, transform, side, acc) ==
  IF i > Len(files_data) THEN acc
  ELSE
    LET item == files_data[i] IN
    IF ~item.has_id \/ ~item.has_name
    THEN ScanFiles_EnterMismatched(files_data, i + 1, suffix, transform, side,
           [acc EXCEPT !.stderr =
              Append(@, Warning("missing_key", side, item.id, item.name))])
    ELSE
      LET file_name == ApplyTransform(transform, item.name) IN
      IF EndsWith(file_name, suffix)
      THEN ScanFiles_EnterMismatched(files_data, i + 1, suffix, transform, side,
             [acc EXCEPT !.files =
                DictSet(@, DropLast(file_name, Len(suffix)), item.id)])
      ELSE ScanFiles_EnterMismatched(files_data, i + 1, suffix, transform, side,
             [acc EXCEPT !.files = DictSet(@, file_name, item.id),
                         !.stderr =
                Append(@, Warning("suffix_mismatch", side, item.id, file_name))])

\* Mutant: the first record lacking a key ends the scanning loop.
RECURSIVE ScanFiles_StopAtMalformed(_, _, _, _, _, _)
ScanFiles_StopAtMalformed(files_data, i, suffix, transform, side, acc) ==
  IF i > Len(files_data) THEN acc
  ELSE
    LET item == files_data[i] IN
    IF ~item.has_id \/ ~item.has_name
    THEN [acc EXCEPT !.stderr =
              Append(@, Warning("missing_key", side, item.id, item.name))]
    ELSE
      LET file_name == ApplyTransform(transform, item.name) IN
      IF EndsWith(file_name, suffix)
      THEN ScanFiles_StopAtMalformed(files_data, i + 1, suffix, transform, side,
             [acc EXCEPT !.files =
                DictSet(@, DropLast(file_name, Len(suffix)), item.id)])
      ELSE ScanFiles_StopAtMalformed(files_data, i + 1, suffix, transform, side,
             [acc EXCEPT !.stderr =
                Append(@, Warning("suffix_mismatch", side, item.id, file_name))])

\* One of the two scanning loops of _pair_dx_files: builds the dict
\* base_name -> file id of one side and the warnings it prints.
RECURSIVE ScanFiles(_, _, _, _, _, _)
ScanFiles(files_data, i, suffix, transform, side, acc) ==
  IF i > Len(files_data) THEN acc
  ELSE
    LET item == files_data[i] IN
    IF ~item.has_id \/ ~item.has_name
    THEN \* KeyError: the item is printed and skipped
         ScanFiles(files_data, i + 1, suffix, transform, side,
           [acc EXCEPT !.stderr =
              Append(@, Warning("missing_key", side, item.id, item.name))])
    ELSE
      LET file_name == ApplyTransform(transform, item.name) IN
      IF EndsWith(file_name, suffix)
      THEN ScanFiles(files_data, i + 1, suffix, transform, side,
             [acc EXCEPT !.files =
                DictSet(@, DropLast(file_name, Len(suffix)), item.id)])
      ELSE ScanFiles(files_data, i + 1, suffix, transform, side,
             [acc EXCEPT !.stderr =
                Append(@, Warning("suffix_mismatch", side, item.id, file_name))])

\* Mutant: an unpaired primary is warned about but not counted.
RECURSIVE PairLoop_NoCount(_, _, _)
PairLoop_NoCount(sorted_primary, secondary_files, acc) ==
  IF sorted_primary = <<>> THEN acc
  ELSE
    LET base_name  == Head(sorted_primary)[1]
        primary_id == Head(sorted_primary)[2]
    IN IF DictHas(secondary_files, base_name)
       THEN PairLoop_NoCount(Tail(sorted_primary), secondary_files,
              [acc EXCEPT !.pairs =
                 Append(@, <<primary_id, DictGet(secondary_files, base_name)>>)])
       ELSE PairLoop_NoCount(Tail(sorted_primary), secondary_files,
              [acc EXCEPT !.stderr =
                 Append(@, Warning("unpaired_primary", "primary", primary_id, base_name))])

\* Mutant: the loop stops at the first primary without a mate.
RECURSIVE PairLoop_BreakOnMiss(_, _, _)
PairLoop_BreakOnMiss(sorted_primary, secondary_files, acc) ==
  IF sorted_primary = <<>> THEN acc
  ELSE
    LET base_name  == Head(sorted_primary)[1]
        primary_id == Head(sorted_primary)[2]
    IN IF DictHas(secondary_files, base_name)
       THEN PairLoop_BreakOnMiss(Tail(sorted_primary), secondary_files,
              [acc EXCEPT !.pairs =
                 Append(@, <<primary_id, DictGet(secondary_files, base_name)>>)])
       ELSE [acc EXCEPT !.stderr =
                 Append(@, Warning("unpaired_primary", "primary", primary_id, base_name)),
                        !.unpaired_primary_count = @ + 1]

\* The pairing loop over sorted(primary_files.items()).
RECURSIVE PairLoop(_, _, _)
PairLoop(sorted_primary, secondary_files, acc) ==
  IF sorted_primary = <<>> THEN acc
  ELSE
    LET base_name  == Head(sorted_primary)[1]
        primary_id == Head(sorted_primary)[2]
    IN IF DictHas(secondary_files, base_name)
       THEN PairLoop(Tail(sorted_primary), secondary_files,
              [acc EXCEPT !.pairs =
                 Append(@, <<primary_id, DictGet(secondary_files, base_name)>>)])
       ELSE PairLoop(Tail(sorted_primary), secondary_files,
              [acc EXCEPT !.stderr =
                 Append(@, Warning("unpaired_primary", "primary", primary_id, base_name)),
                          !.unpaired_primary_count = @ + 1])

\* Mutant: every secondary is counted as orphaned, matched or not.
RECURSIVE OrphanLoop_CountAll(_, _, _)
OrphanLoop_CountAll(secondary_items, primary_files, acc) ==
  IF secondary_items = <<>> THEN acc
  ELSE
    LET base_name    == Head(secondary_items)[1]
        secondary_id == Head(secondary_items)[2]
    IN OrphanLoop_CountAll(Tail(secondary_items), primary_files,
         [acc EXCEPT !.stderr =
            Append(@, Warning("orphaned_secondary", "secondary", secondary_id, base_name)),
                     !.orphaned_secondary_count = @ + 1])

\* The orphan loop over secondary_files.items().
RECURSIVE OrphanLoop(_, _, _)
OrphanLoop(secondary_items, primary_files, acc) ==
  IF secondary_items = <<>> THEN acc
  ELSE
    LET base_name    == Head(secondary_items)[1]
        secondary_id == Head(secondary_items)[2]
    IN IF ~DictHas(primary_files, base_name)
       THEN OrphanLoop(Tail(secondary_items), primary_files,
              [acc EXCEPT !.stderr =
                 Append(@, Warning("orphaned_secondary", "secondary", secondary_id, base_name)),
                          !.orphaned_secondary_count = @ + 1])
       ELSE OrphanLoop(Tail(secondary_items), primary_files, acc)

EmptyScan == [files |-> <<>>, stderr |-> <<>>]

EmptyResult ==
  [pairs |-> <<>>, unpaired_primary_count |-> 0, orphaned_secondary_count |-> 0,
   stderr |-> <<>>, primary_files |-> <<>>, secondary_files |-> <<>>]

\* Mutant: with no secondary base name the pairer returns before its loops.
MatchFileSets_ReturnOnEmpty(primary_scan, secondary_scan) ==
  LET start   == [EmptyResult EXCEPT
                    !.stderr = primary_scan.stderr \o secondary_scan.stderr,
                    !.primary_files = primary_scan.files,
                    !.secondary_files = secondary_scan.files]
      matched == PairLoop(SortedItems(primary_scan.files), secondary_scan.files, start)
  IN IF secondary_scan.files = <<>> THEN start
     ELSE OrphanLoop(secondary_scan.files, primary_scan.files, matched)

\* The part of both pairers after the two dicts are built.
MatchFileSets(primary_scan, secondary_scan) ==
  LET start   == [EmptyResult EXCEPT
                    !.stderr = primary_scan.stderr \o secondary_scan.stderr,
                    !.primary_files = primary_scan.files,
                    !.secondary_files = secondary_scan.files]
      matched == PairLoop(SortedItems(primary_scan.files), secondary_scan.files, start)
  IN OrphanLoop(secondary_scan.files, primary_scan.files, matched)

\* DXCommandGenerator._pair_dx_files
_pair_dx_files(primary_data, p_suffix, secondary_data, s_suffix, transform) ==
  MatchFileSets(ScanFiles(primary_data, 1, p_suffix, transform, "primary", EmptyScan),
                ScanFiles(secondary_data, 1, s_suffix, transform, "secondary", EmptyScan))

(* --------------------- FastQCCommandGenerator (fqc.py) ------------------ *)

\* One scanning loop of _find_fastq_pairs: the read token of this side is
\* replaced by "_R#.", a trailing ".fastq.gz" is cut off when present, and
\* the name is entered in the dict whatever it ends with.
RECURSIVE ScanFastq(_, _, _, _, _)
ScanFastq(files_data, i, read_token, side, acc) ==
  IF i > Len(files_data) THEN acc
  ELSE
    LET item == files_data[i] IN
    IF ~item.has_id \/ ~item.has_name
    THEN ScanFastq(files_data, i + 1, read_token, side,
           [acc EXCEPT !.stderr =
              Append(@, Warning("missing_key", side, item.id, item.name))])
    ELSE
      LET replaced  == Replace(item.name, read_token, RHashToken)
          base_name == IF EndsWith(replaced, DotFastqGz)
                       THEN DropLast(replaced, FastqGzLen)
                       ELSE replaced
      IN ScanFastq(files_data, i + 1, read_token, side,
           [acc EXCEPT !.files = DictSet(@, base_name, item.id)])

\* FastQCCommandGenerator._find_fastq_pairs
_find_fastq_pairs(r1_files_data, r2_files_data) ==
  MatchFileSets(ScanFastq(r1_files_data, 1, R1Token, "primary", EmptyScan),
                ScanFastq(r2_files_data, 1, R2Token, "secondary", EmptyScan))

(* ------------------- the stand-alone pairers and scanners --------------- *)

\* One scanning loop of cov.py's _find_bam_bai_pairs: no transform, the
\* suffix is that of the loop's side.
RECURSIVE CovScan(_, _, _, _, _)
CovScan(files_data, i, suffix, side, acc) ==
  IF i > Len(files_data) THEN acc
  ELSE
    LET item == files_data[i] IN
    IF ~item.has_id \/ ~item.has_name
    THEN CovScan(files_data, i + 1, suffix, side,
           [acc EXCEPT !.stderr =
              Append(@, Warning("missing_key", side, item.id, item.name))])
    ELSE IF EndsWith(item.name, suffix)
    THEN CovScan(files_data, i + 1, suffix, side,
           [acc EXCEPT !.files = DictSet(@, DropLast(item.name, Len(suffix)), item.id)])
    ELSE CovScan(files_data, i + 1, suffix, side,
           [acc EXCEPT !.stderr =
              Append(@, Warning("suffix_mismatch", side, item.id, item.name))])

\* CoverageCommandGenerator._find_bam_bai_pairs of cov.py, after the two
\* queries.
Cov_find_bam_bai_pairs(bam_files_data, bai_files_data) ==
  MatchFileSets(CovScan(bam_files_data, 1, DotBam, "primary", EmptyScan),
                CovScan(bai_files_data, 1, DotBamBai, "secondary", EmptyScan))

\* find_and_pair_fastq_files of fastqmatchpair.py, after the two queries:
\* its scanning loops have the text of _find_fastq_pairs', the pairs are the
\* lines "r1_id:r2_id" it writes to its output file.
find_and_pair_fastq_files(r1_files_data, r2_files_data) ==
  MatchFileSets(ScanFastq(r1_files_data, 1, R1Token, "primary", EmptyScan),
                ScanFastq(r2_files_data, 1, R2Token, "secondary", EmptyScan))

\* The loop of picard.py's _find_sorted_bams: the ids of the records whose
\* name ends with ".bam", in listing order.
RECURSIVE SortedBamsLoop(_, _, _)
SortedBamsLoop(bam_files_data, i, acc) ==
  IF i > Len(bam_files_data) THEN acc
  ELSE
    LET item == bam_files_data[i] IN
    IF ~item.has_id \/ ~item.has_name
    THEN SortedBamsLoop(bam_files_data, i + 1,
           [acc EXCEPT !.stderr =
              Append(@, Warning("missing_key", "primary", item.id, item.name))])
    ELSE IF EndsWith(item.name, DotBam)
    THEN SortedBamsLoop(bam_files_data, i + 1,
           [acc EXCEPT !.bam_files = Append(@, item.id)])
    ELSE SortedBamsLoop(bam_files_data, i + 1,
           [acc EXCEPT !.stderr =
              Append(@, Warning("suffix_mismatch", "primary", item.id, item.name))])

\* PicardCommandGenerator._find_sorted_bams, after the query.
_find_sorted_bams(bam_files_data) ==
  SortedBamsLoop(bam_files_data, 1, [bam_files |-> <<>>, stderr |-> <<>>])

(* ------------------------- inputs of the pairers ------------------------ *)

\* The names a query can return: those its glob is meant to find, and one
\* that belongs to the other side.
BamNames == {S1markdupBam, S2markdupBam, S1markdupBai}
BaiNames == {S1markdupBai, S2markdupBai, S1markdupBam}
R1Names == {A_R1, B_R1, A_R2}
R2Names == {A_R2, B_R2, A_R1}

\* The calls made of the pairer: coverage (BAM/BAI, without a transform and
\* with the identity), and the FASTQ pairing with the R1/R2 transform, with
\* the read suffixes as they stand before and after the transform.
PairConfigs ==
  { [primary_suffix |-> DotBam, secondary_suffix |-> DotBamBai,
     transform |-> "none", primary_names |-> BamNames, secondary_names |-> BaiNames],
    [primary_suffix |-> DotBam, secondary_suffix |-> DotBamBai,
     transform |-> "identity", primary_names |-> BamNames, secondary_names |-> BaiNames],
    [primary_suffix |-> R1FastqGz, secondary_suffix |-> R2FastqGz,
     transform |-> "r1r2", primary_names |-> R1Names, secondary_names |-> R2Names],
    [primary_suffix |-> RHashFastqGz, secondary_suffix |-> RHashFastqGz,
     transform |-> "r1r2", primary_names |-> R1Names, secondary_names |-> R2Names] }

\* What one listing entry can look like: well formed, or lacking a key.
Entries(names) ==
  {[name |-> n, has_id |-> TRUE, has_name |-> TRUE] : n \in names}
    \cup {[name |-> n, has_id |-> FALSE, has_name |-> TRUE] :
             n \in names \cap {S2markdupBam, S2markdupBai, B_R1, B_R2}}
    \cup {[name |-> <<>>, has_id |-> TRUE, has_name |-> FALSE]}

Listings(names) == UNION {[1..n -> Entries(names)] : n \in 0..MaxFiles}

\* The records of a listing; the k-th record of a run carries the k-th id.
MakeItems(listing, offset) ==
  [i \in 1..Len(listing) |->
     [id       |-> IF listing[i].has_id THEN FileIds[offset + i] ELSE "",
      name     |-> listing[i].name,
      has_id   |-> listing[i].has_id,
      has_name |-> listing[i].has_name]]

(* ======================================================================= *)
(*              CP2WorkflowGenerator (modules/workflow.py)                 *)
(* ======================================================================= *)

(* --------------------------- tokens and samples ------------------------ *)
NGS == <<"N", "G", "S">>
Pan == <<"P", "a", "n">>
WES == <<"W", "E", "S">>
SingletonWES == <<"S", "i", "n", "g", "l", "e", "t", "o", "n", "W", "E", "S">>
NA12878 == <<"N", "A", "1", "2", "8", "7", "8">>
R134 == <<"R", "1", "3", "4">>
R210 == <<"R", "2", "1", "0">>
R211 == <<"R", "2", "1", "1">>
Sample_R134 == <<"N", "G", "S", "0", "0", "1", "_", "R", "1", "3", "4", "_", "P", "a", "n", "9", "9", "9">>
Sample_SingletonWES == <<"N", "G", "S", "0", "0", "1", "_", "S", "i", "n", "g", "l", "e", "t", "o", "n", "W", "E", "S", "_", "P", "a", "n", "9", "9", "9">>
Sample_R134_1 == <<"N", "G", "S", "0", "0", "1", "_", "R", "1", "3", "4", ".", "1", "_", "P", "a", "n", "9", "9", "9">>
Sample_R1345 == <<"N", "G", "S", "0", "0", "1", "_", "R", "1", "3", "4", "5", "_", "P", "a", "n", "9", "9", "9">>
Sample_R210 == <<"N", "G", "S", "0", "0", "1", "_", "R", "2", "1", "0", "_", "P", "a", "n", "9", "9", "9">>
Sample_R211 == <<"N", "G", "S", "0", "0", "1", "_", "R", "2", "1", "1", "_", "P", "a", "n", "9", "9", "9">>
Sample_R134_WES == <<"N", "G", "S", "0", "0", "1", "_", "R", "1", "3", "4", "_", "W", "E", "S", "_", "P", "a", "n", "9", "9", "9">>
Sample_wes == <<"N", "G", "S", "0", "0", "1", "_", "w", "e", "s", "_", "P", "a", "n", "9", "9", "9">>
Sample_NA12878_R134 == <<"N", "G", "S", "0", "0", "1", "_", "N", "A", "1", "2", "8", "7", "8", "_", "R", "1", "3", "4", "_", "P", "a", "n", "9", "9", "9">>
Sample_NA12878_WES == <<"N", "G", "S", "0", "0", "2", "_", "N", "A", "1", "2", "8", "7", "8", "_", "W", "E", "S", "_", "P", "a", "n", "5">>
Sample_na12878_R210 == <<"N", "G", "S", "0", "0", "1", "_", "n", "a", "1", "2", "8", "7", "8", "_", "R", "2", "1", "0", "_", "P", "a", "n", "9", "9", "9">>
Sample_garbage == <<"g", "a", "r", "b", "a", "g", "e", "_", "n", "o", "_", "m", "a", "r", "k", "e", "r", "s">>
Sample_NoPan == <<"N", "G", "S", "0", "0", "1", "_", "R", "1", "3", "4">>
Sample_NoBatch == <<"R", "1", "3", "4", "_", "P", "a", "n", "9", "9", "9">>
Sample_WES_R211_2 == <<"N", "G", "S", "0", "0", "1", "_", "W", "E", "S", "_", "R", "2", "1", "1", ".", "2", "_", "p", "a", "n", "1">>
Sample_r134 == <<"N", "G", "S", "0", "0", "1", "_", "r", "1", "3", "4", "_", "P", "a", "n", "9", "9", "9">>
Sample_R210_comma == <<"N", "G", "S", "0", "0", "1", "_", "R", "2", "1", "0", "_", "P", "a", "n", "9", "9", "9", ",", "N", "A", "1", "2", "8", "7", "8">>
Sample_R134_R210 == <<"N", "G", "S", "0", "0", "1", "_", "R", "1", "3", "4", "_", "R", "2", "1", "0", "_", "P", "a", "n", "9", "9", "9">>
Sample_R211_dot == <<"N", "G", "S", "0", "0", "1", "_", "R", "2", "1", "1", ".", "_", "P", "a", "n", "9", "9", "9">>

Sample_BatchAtEnd == <<"R", "1", "3", "4", "_", "P", "a", "n", "9", "_", "N", "G", "S", "1", "2", "a", "b">>
Sample_TwoBatches == <<"N", "G", "S", "1", "-", "x", "_", "N", "G", "S", "2", "2", "B", "_", "R", "1", "3", "4", "_", "P", "a", "n", "9">>
Sample_R134_Other == <<"N", "G", "S", "0", "0", "2", "_", "R", "1", "3", "4", "_", "P", "a", "n", "5">>
\* The lines of the sample list a run can read.
SampleLines ==
  { Sample_R134, Sample_SingletonWES, Sample_R134_1, Sample_R1345, Sample_R210,
    Sample_R211, Sample_R134_WES, Sample_wes, Sample_NA12878_R134,
    Sample_NA12878_WES, Sample_na12878_R210, Sample_garbage, Sample_NoPan,
    Sample_NoBatch, Sample_WES_R211_2, Sample_r134, Sample_R210_comma,
    Sample_R134_R210, Sample_R211_dot, Sample_BatchAtEnd, Sample_TwoBatches,
    Sample_R134_Other }

(* ------------------------------ re primitives --------------------------- *)

\* No match / no value.  A match of the patterns below is never empty, so
\* the empty string stands for Python's None.
None == <<>>

Digits == {"0", "1", "2", "3", "4", "5", "6", "7", "8", "9"}

IsDigit(c) == c \in Digits

IsUpper(c) == Ord(c) >= 65 /\ Ord(c) <= 90

IsLower(c) == Ord(c) >= 97 /\ Ord(c) <= 122

\* [A-Za-z0-9]
IsAlnum(c) == IsDigit(c) \/ IsUpper(c) \/ IsLower(c)

\* c.lower() on ASCII
Lower(c) == IF IsUpper(c) THEN Ascii[Ord(c) + 32 - 31] ELSE c

\* The last position of the run of digits that starts at i (i - 1 if none):
\* what a greedy \d+ or \d* consumes.
RECURSIVE DigitsEnd(_, _)
DigitsEnd(s, i) ==
  IF i <= Len(s) /\ IsDigit(s[i]) THEN DigitsEnd(s, i + 1) ELSE i - 1

\* The same for [A-Za-z0-9]*.
RECURSIVE AlnumEnd(_, _)
AlnumEnd(s, i) ==
  IF i <= Len(s) /\ IsAlnum(s[i]) THEN AlnumEnd(s, i + 1) ELSE i - 1

\* s matches the literal t at position i, ignoring letter case.
MatchAtIgnoreCase(s, i, t) ==
  /\ i + Len(t) - 1 <= Len(s)
  /\ \A k \in 1..Len(t) : Lower(s[i + k - 1]) = Lower(t[k])

\* t in s
Contains(s, t) == \E i \in 1..Len(s) : MatchAt(s, i, t)

\* The least element of a non-empty set of positions: re.search returns the
\* leftmost match.
Leftmost(S) == CHOOSE i \in S : \A j \in S : i <= j

\* re.search(r'R\d+(?:\.\d+)?', s): group(0), or None.
SearchRNumber(s) ==
  LET starts == {i \in 1..Len(s) :
                   s[i] = "R" /\ i + 1 <= Len(s) /\ IsDigit(s[i + 1])}
  IN IF starts = {} THEN None
     ELSE LET i == Leftmost(starts)
              j == DigitsEnd(s, i + 1)
          IN IF j + 2 <= Len(s) /\ s[j + 1] = "." /\ IsDigit(s[j + 2])
             THEN SubSeq(s, i, DigitsEnd(s, j + 2))
             ELSE SubSeq(s, i, j)

\* re.search(r'SingletonWES|WES', s, re.IGNORECASE) is not None
SearchWES(s) ==
  \E i \in 1..Len(s) :
     MatchAtIgnoreCase(s, i, SingletonWES) \/ MatchAtIgnoreCase(s, i, WES)

\* The search without re.IGNORECASE.
SearchPanCode_CaseSensitive(s) ==
  LET starts == {i \in 1..Len(s) :
                   /\ MatchAt(s, i, Pan)
                   /\ i + 3 <= Len(s) /\ IsDigit(s[i + 3])}
  IN IF starts = {} THEN None
     ELSE LET i == Leftmost(starts) IN SubSeq(s, i, DigitsEnd(s, i + 3))

\* re.search(r'Pan\d+', s, re.IGNORECASE): group(0), or None.
SearchPanCode(s) ==
  LET starts == {i \in 1..Len(s) :
                   /\ MatchAtIgnoreCase(s, i, Pan)
                   /\ i + 3 <= Len(s) /\ IsDigit(s[i + 3])}
  IN IF starts = {} THEN None
     ELSE LET i == Leftmost(starts) IN SubSeq(s, i, DigitsEnd(s, i + 3))

\* re.search(r'(NGS\d+[A-Za-z0-9]*?)(?:_|$)', s): group(1), or None.  The
\* group is "NGS", a digit, and the whole alphanumeric run after it, which
\* must be followed by an underscore or by the end of the string.
SearchBatch(s) ==
  LET starts == {i \in 1..Len(s) :
                   /\ MatchAt(s, i, NGS)
                   /\ i + 3 <= Len(s) /\ IsDigit(s[i + 3])
                   /\ LET j == AlnumEnd(s, i + 3)
                      IN j = Len(s) \/ s[j + 1] = "_"}
  IN IF starts = {} THEN None
     ELSE LET i == Leftmost(starts) IN SubSeq(s, i, AlnumEnd(s, i + 3))

\* s.strip(): leading and trailing blanks removed.
RECURSIVE Strip(_)
Strip(s) ==
  IF s # <<>> /\ s[1] = " " THEN Strip(Tail(s))
  ELSE IF s # <<>> /\ s[Len(s)] = " " THEN Strip(SubSeq(s, 1, Len(s) - 1))
  ELSE s

\* s.split(',')[0]
FirstField(s) ==
  LET commas == {i \in 1..Len(s) : s[i] = ","}
  IN IF commas = {} THEN s ELSE SubSeq(s, 1, Leftmost(commas) - 1)

(* ------------------------------- state ---------------------------------- *)

VARIABLES
  samples_to_process,   \* the lines of the sample list
  sample_idx,           \* how many of them the loop has handled
  processed_count,
  failed_count,
  failures_csv,         \* the data rows of the failures log
  output_file,          \* the run commands of the generated script
  stdout,               \* the summary printed for each accepted sample
  failures_log,         \* the failures log: "absent", "exists", or "stale"
                        \* (rows of an earlier run, not in failures_csv)
  wf_pc,                \* where _process_workflow stands; at the end "returned"
                        \* (after the summary) or "returned_early"
  run_env,              \* the arguments and what the file system will do
  script_head,          \* what the script holds before its run commands
  sample_file,          \* the lines of the sample file that is read
  temp_file,            \* the temporary sample file: "none", "exists", "deleted"
  warnings              \* the warnings and errors printed outside the loop

\* What the sample loop leaves alone.
runVars == <<wf_pc, run_env, script_head, sample_file, temp_file, warnings>>

wfVars == <<samples_to_process, sample_idx, processed_count, failed_count,
            failures_csv, output_file, stdout, failures_log, runVars>>

VARIABLES
  manifest_content,     \* what "dx cat" prints for the manifest
  dx_cat_ok,            \* whether "dx cat" succeeds
  dxutils_ret,          \* what DXUtils.extract_pan_numbers returned
  readcount_ret,        \* what readcount.py's _extract_pan_numbers returned
  cnv_ret               \* what cnv.py's _extract_pan_numbers returned

panVars == <<manifest_content, dx_cat_ok, dxutils_ret, readcount_ret, cnv_ret>>

VARIABLES
  panel_config,         \* PANEL_DICT: pan number -> panel_info
  cnv_pan_numbers,      \* the pan numbers extracted from the manifest
  cnv_open_ok,          \* whether the output script can be opened
  cnv_run,              \* what modules/cnv.py's _generate_cnv_commands did
  legacy_cnv_run        \* what cnv.py's _generate_cnv_commands did

cnvVars == <<panel_config, cnv_pan_numbers, cnv_open_ok, cnv_run, legacy_cnv_run>>

vars == <<pairVars, wfVars, panVars, cnvVars>>

(* --------------------------- _process_sample ---------------------------- *)

\* The PolyEdge stage inputs of the run command, as (input, value) pairs.
PolyEdgeStageInputs ==
  << <<"gene", "MSH2">>, <<"chrom", "2">>, <<"poly_start", "47641559">>,
     <<"poly_end", "47641586">>, <<"skip", "false">> >>

\* Mutant: the WES marker is looked for before the R number.
r_number_WesFirst(sample_name) ==
  IF SearchWES(sample_name) THEN WES ELSE SearchRNumber(sample_name)

\* r_number after the R-number search and the WES fallback (None when both
\* fail).
r_number(sample_name) ==
  LET match == SearchRNumber(sample_name)
  IN IF match = None /\ SearchWES(sample_name) THEN WES ELSE match

\* Mutant: any run number that starts with "R134" enables PRS.
prs_skip_Prefix(run) == IF MatchAt(run, 1, R134) THEN "false" ELSE "true"

prs_skip(run) == IF run = R134 THEN "false" ELSE "true"

\* Mutant: R211 is left out of the PolyEdge runs.
polyedge_params_R210Only(run) ==
  IF run = R210 THEN PolyEdgeStageInputs ELSE <<>>

polyedge_params(run) ==
  IF run \in {R210, R211} THEN PolyEdgeStageInputs ELSE <<>>

\* Mutant: the control marker is looked for ignoring letter case.
cnv_stage_skip_IgnoreCase(sample_name) ==
  IF \E i \in 1..Len(sample_name) : MatchAtIgnoreCase(sample_name, i, NA12878)
  THEN "false" ELSE "true"

cnv_stage_skip(sample_name) ==
  IF Contains(sample_name, NA12878) THEN "false" ELSE "true"

\* What a call of _process_sample does: the value it returns, the rows it
\* appends to the failures log, the commands it appends to the script and
\* the summaries it prints.
Rejected(sample_name, reason) ==
  [ok |-> FALSE,
   rows |-> <<[sample_name |-> sample_name, failure_reason |-> reason]>>,
   commands |-> <<>>,
   prints |-> <<>>]

\* Mutant: the variant bed file is the one of the Pan code of the sample.
RunCommand_BedFromPanCode(sample_name, run, pan_code, batch, write_ok) ==
  IF write_ok
  THEN [ok |-> TRUE,
        rows |-> <<>>,
        commands |->
          <<[sample_name |-> sample_name,
             variant_bed |-> <<pan_code, "_data.bed">>,
             coverage_bed |-> "Pan5272_sambamba.bed",
             cnv_stage_skip |-> cnv_stage_skip(sample_name),
             prs_skip |-> prs_skip(run),
             polyedge_params |-> polyedge_params(run)]>>,
        prints |->
          <<[sample_name |-> sample_name, r_number |-> run,
             pan_code |-> pan_code, batch |-> batch]>>]
  ELSE [ok |-> FALSE, rows |-> <<>>, commands |-> <<>>, prints |-> <<>>]

\* The samples that pass the three checks: the command is appended to the
\* script and the summary printed, or, when the script cannot be appended
\* to (IOError), False is returned and nothing is recorded.
RunCommand(sample_name, run, pan_code, batch, write_ok) ==
  IF write_ok
  THEN [ok |-> TRUE,
        rows |-> <<>>,
        commands |->
          <<[sample_name |-> sample_name,
             variant_bed |-> "Pan5272_data.bed",
             coverage_bed |-> "Pan5272_sambamba.bed",
             cnv_stage_skip |-> cnv_stage_skip(sample_name),
             prs_skip |-> prs_skip(run),
             polyedge_params |-> polyedge_params(run)]>>,
        prints |->
          <<[sample_name |-> sample_name, r_number |-> run,
             pan_code |-> pan_code, batch |-> batch]>>]
  ELSE [ok |-> FALSE, rows |-> <<>>, commands |-> <<>>, prints |-> <<>>]

\* _process_sample with a sample without run number taken for a WES sample.
_process_sample_DefaultRun(sample_name, write_ok) ==
  LET found    == r_number(sample_name)
      run      == IF found = None THEN WES ELSE found
      pan_code == SearchPanCode(sample_name)
      batch    == SearchBatch(sample_name)
  IN IF pan_code = None
     THEN Rejected(sample_name, "Could not extract Pan code")
     ELSE IF batch = None
     THEN Rejected(sample_name, "Could not detect batch information")
     ELSE RunCommand(sample_name, run, pan_code, batch, write_ok)

\* _process_sample with the Pan-code check ahead of the run-number check.
_process_sample_PanFirst(sample_name, write_ok) ==
  LET run      == r_number(sample_name)
      pan_code == SearchPanCode(sample_name)
      batch    == SearchBatch(sample_name)
  IN IF pan_code = None
     THEN Rejected(sample_name, "Could not extract Pan code")
     ELSE IF run = None
     THEN Rejected(sample_name, "Could not extract R number")
     ELSE IF batch = None
     THEN Rejected(sample_name, "Could not detect batch information")
     ELSE RunCommand(sample_name, run, pan_code, batch, write_ok)

\* _process_sample with a fallback batch for a name that holds none.
_process_sample_FallbackBatch(sample_name, write_ok) ==
  LET run      == r_number(sample_name)
      pan_code == SearchPanCode(sample_name)
      match    == SearchBatch(sample_name)
      batch    == IF match = None
                  THEN <<"N", "G", "S", "6", "5", "0", "F", "F", "V", "0", "6",
                         "P", "O", "O", "L", "2">>
                  ELSE match
  IN IF run = None
     THEN Rejected(sample_name, "Could not extract R number")
     ELSE IF pan_code = None
     THEN Rejected(sample_name, "Could not extract Pan code")
     ELSE RunCommand(sample_name, run, pan_code, batch, write_ok)

\* CP2WorkflowGenerator._process_sample: the three checks in their order,
\* each returning at once with its own row, then the command.
_process_sample(sample_name, write_ok) ==
  LET run      == r_number(sample_name)
      pan_code == SearchPanCode(sample_name)
      batch    == SearchBatch(sample_name)
  IN IF run = None
     THEN Rejected(sample_name, "Could not extract R number")
     ELSE IF pan_code = None
     THEN Rejected(sample_name, "Could not extract Pan code")
     ELSE IF batch = None
     THEN Rejected(sample_name, "Could not detect batch information")
     ELSE RunCommand(sample_name, run, pan_code, batch, write_ok)

(* ------------------ runcmd_generator.py: _process_sample ---------------- *)

\* The batch a sample gets when its name holds none.
FallbackBatch ==
  <<"N", "G", "S", "6", "5", "0", "F", "F", "V", "0", "6", "P", "O", "O", "L", "2">>

\* The last position of the run of upper-case letters that starts at i
\* (i - 1 if none): what a greedy [A-Z]+ consumes.
RECURSIVE UpperEnd(_, _)
UpperEnd(s, i) ==
  IF i <= Len(s) /\ IsUpper(s[i]) THEN UpperEnd(s, i + 1) ELSE i - 1

\* re.search(r'SingletonWES|WES', s) is not None: the search is made without
\* re.IGNORECASE.
Runcmd_SearchWES(s) == Contains(s, SingletonWES) \/ Contains(s, WES)

\* re.search(r'Pan\d+', s): group(0), or None.
Runcmd_SearchPanCode(s) ==
  LET starts == {i \in 1..Len(s) :
                   /\ MatchAt(s, i, Pan)
                   /\ i + 3 <= Len(s) /\ IsDigit(s[i + 3])}
  IN IF starts = {} THEN None
     ELSE LET i == Leftmost(starts) IN SubSeq(s, i, DigitsEnd(s, i + 3))

\* re.search(r'NGS\d+[A-Z]+\d+', s): group(0), or None.  Each of the three
\* runs is greedy and the character after a run is of another class, so
\* backtracking finds nothing more.
Runcmd_SearchBatch(s) ==
  LET starts == {i \in 1..Len(s) :
                   /\ MatchAt(s, i, NGS)
                   /\ LET d == DigitsEnd(s, i + 3)
                          u == UpperEnd(s, d + 1)
                      IN d >= i + 3 /\ u >= d + 1 /\ DigitsEnd(s, u + 1) >= u + 1}
  IN IF starts = {} THEN None
     ELSE LET i == Leftmost(starts)
          IN SubSeq(s, i, DigitsEnd(s, UpperEnd(s, DigitsEnd(s, i + 3) + 1) + 1))

\* r_number after the R-number search and the WES fallback (None when both
\* fail).
Runcmd_r_number(sample_name) ==
  LET match == SearchRNumber(sample_name)
  IN IF match = None /\ Runcmd_SearchWES(sample_name) THEN WES ELSE match

\* CP2WorkflowGenerator._process_sample of runcmd_generator.py (the text of
\* the module-level process_sample): two checks, each returning at once with
\* its own row, a fallback batch, then the command.
Runcmd_process_sample(sample_name) ==
  LET run      == Runcmd_r_number(sample_name)
      pan_code == Runcmd_SearchPanCode(sample_name)
      match    == Runcmd_SearchBatch(sample_name)
      batch    == IF match = None THEN FallbackBatch ELSE match
  IN IF run = None
     THEN Rejected(sample_name, "Missing R number")
     ELSE IF pan_code = None
     THEN Rejected(sample_name, "Missing Pan code")
     ELSE [ok |-> TRUE,
           rows |-> <<>>,
           commands |->
             <<[sample_name |-> sample_name,
                variant_bed |-> "Pan5272_data.bed",
                coverage_bed |-> "Pan5272_sambamba.bed",
                cnv_stage_skip |-> cnv_stage_skip(sample_name),
                prs_skip |-> prs_skip(run),
                polyedge_params |-> polyedge_params(run)]>>,
           prints |->
             <<[sample_name |-> sample_name, r_number |-> run,
                batch |-> batch]>>]

(* ------------------------- extract_pan_numbers -------------------------- *)

\* Lines of a run manifest (RunManifest.csv).
Line_Pan123 == <<"S", "1", ",", "P", "a", "n", "1", "2", "3", ",", "x">>
Line_pan123 == <<"S", "2", ",", "p", "a", "n", "1", "2", "3", ",", "x">>
Line_PAN45_Pan123 == <<"S", "3", ",", "P", "A", "N", "4", "5", ",", "P", "a", "n", "1", "2", "3">>
Line_Header == <<"S", "a", "m", "p", "l", "e", ",", "P", "a", "n", "e", "l">>
Line_Padded == <<" ", " ", "S", "5", ",", "P", "a", "n", "7", " ", " ">>
Line_span88 == <<"S", "6", ",", "s", "p", "a", "n", "8", "8">>
Line_Empty == <<>>

ManifestLines ==
  { Line_Pan123, Line_pan123, Line_PAN45_Pan123, Line_Header, Line_Padded,
    Line_span88, Line_Empty }

\* The text "dx cat" prints for a manifest of the given lines: every line
\* ends with a newline.
RECURSIVE JoinLines(_)
JoinLines(lines) ==
  IF lines = <<>> THEN <<>>
  ELSE Head(lines) \o <<"\n">> \o JoinLines(Tail(lines))

\* text.splitlines(), for text whose only line boundary is "\n": no line
\* for the empty text, and no empty last line after a final newline.
RECURSIVE SplitLines(_)
SplitLines(text) ==
  IF text = <<>> THEN <<>>
  ELSE LET breaks == {i \in 1..Len(text) : text[i] = "\n"}
       IN IF breaks = {} THEN <<text>>
          ELSE LET i == Leftmost(breaks)
               IN <<SubSeq(text, 1, i - 1)>>
                    \o SplitLines(SubSeq(text, i + 1, Len(text)))

\* What a call of one of the extractors gave back.
NotReturned == [returned |-> FALSE, none |-> FALSE, pan_numbers |-> {}]

ReturnSet(pan_numbers) ==
  [returned |-> TRUE, none |-> FALSE, pan_numbers |-> pan_numbers]

ReturnNone == [returned |-> TRUE, none |-> TRUE, pan_numbers |-> {}]

\* The loop with every line's match replaced by "Pan" and its digits.
RECURSIVE PanLoop_Normalized(_, _, _)
PanLoop_Normalized(lines, i, pan_numbers) ==
  IF i > Len(lines) THEN pan_numbers
  ELSE LET line      == Strip(lines[i])
           pan_match == SearchPanCode(line)
       IN IF line # <<>> /\ pan_match # None
          THEN PanLoop_Normalized(lines, i + 1,
                 pan_numbers \cup {Pan \o SubSeq(pan_match, 4, Len(pan_match))})
          ELSE PanLoop_Normalized(lines, i + 1, pan_numbers)

\* for line in manifest_content.splitlines(): strip, skip empty lines,
\* search, add group(0) to the set.
RECURSIVE PanLoop(_, _, _)
PanLoop(lines, i, pan_numbers) ==
  IF i > Len(lines) THEN pan_numbers
  ELSE LET line      == Strip(lines[i])
           pan_match == SearchPanCode(line)
       IN IF line # <<>> /\ pan_match # None
          THEN PanLoop(lines, i + 1, pan_numbers \cup {pan_match})
          ELSE PanLoop(lines, i + 1, pan_numbers)

\* DXUtils.extract_pan_numbers: a failing "dx cat" is caught and the set,
\* still empty, is returned.
extract_pan_numbers(cat_ok, content) ==
  IF cat_ok THEN ReturnSet(PanLoop(SplitLines(content), 1, {}))
  ELSE ReturnSet({})

\* The loop of readcount.py: the same without the test for empty lines.
RECURSIVE ReadcountPanLoop(_, _, _)
ReadcountPanLoop(lines, i, pan_numbers) ==
  IF i > Len(lines) THEN pan_numbers
  ELSE LET line      == Strip(lines[i])
           pan_match == SearchPanCode(line)
       IN IF pan_match # None
          THEN ReadcountPanLoop(lines, i + 1, pan_numbers \cup {pan_match})
          ELSE ReadcountPanLoop(lines, i + 1, pan_numbers)

\* ReadcountCommandGenerator._extract_pan_numbers (readcount.py): None when
\* "dx cat" fails and None when no line matched.
Readcount_extract_pan_numbers(cat_ok, content) ==
  IF cat_ok
  THEN LET pan_numbers == ReadcountPanLoop(SplitLines(content), 1, {})
       IN IF pan_numbers = {} THEN ReturnNone ELSE ReturnSet(pan_numbers)
  ELSE ReturnNone

\* CNVCommandGenerator._extract_pan_numbers (cnv.py): the text of
\* DXUtils.extract_pan_numbers.
CNV_extract_pan_numbers(cat_ok, content) ==
  IF cat_ok THEN ReturnSet(PanLoop(SplitLines(content), 1, {}))
  ELSE ReturnSet({})

(* -------------------- CNV bed files and CNV commands -------------------- *)

\* Pan numbers of a run, as extract_pan_numbers returns them.
Pan10 == <<"P", "a", "n", "1", "0">>
Pan300 == <<"P", "a", "n", "3", "0", "0">>
Pan9 == <<"P", "a", "n", "9">>
pan2 == <<"p", "a", "n", "2">>

PanCodes == {Pan10, Pan300, Pan9, pan2}

\* A panel_info of PANEL_DICT: its 'ed_cnvcalling_bedfile' is falsy (None,
\* written "" here) or the name of a bed file.
PanelInfos ==
  {[ed_cnvcalling_bedfile |-> ""], [ed_cnvcalling_bedfile |-> "Pan5171"]}

\* The panel tables: any subset of the pan numbers as keys.
PanelConfigs == UNION {[K -> PanelInfos] : K \in SUBSET PanCodes}

\* sorted(pan_numbers): ascending in code-point order.
RECURSIVE Sorted(_)
Sorted(S) ==
  IF S = {} THEN <<>>
  ELSE LET least == CHOOSE x \in S : \A y \in S \ {x} : StrLess(x, y)
       IN <<least>> \o Sorted(S \ {least})

\* What a call of _get_cnv_bedfile gives its caller (an exception or a
\* value, None or the path of the bed file) and the message it prints.
BedfileReturn(value, message) ==
  [raised |-> FALSE, value |-> value, message |-> message]

BedfileRaise(message) == [raised |-> TRUE, value |-> None, message |-> message]

BedPath(cnv_bedfile) == <<"/Data/BED/", cnv_bedfile, "_CNV.bed">>

\* modules/cnv.py: a pan number missing from the table is a warning on
\* stderr and None, as is a panel without CNV bed file.
_get_cnv_bedfile(config, pan_number) ==
  IF pan_number \notin DOMAIN config
  THEN BedfileReturn(None, "Warning: Pan number not found in panel configuration")
  ELSE LET cnv_bedfile == config[pan_number].ed_cnvcalling_bedfile
       IN IF cnv_bedfile # ""
          THEN BedfileReturn(BedPath(cnv_bedfile), "")
          ELSE BedfileReturn(None, "Note: Pan number found but has no CNV bedfile configured")

\* cnv.py: a pan number missing from the table raises ValueError, which is
\* printed and raised again.
Legacy_get_cnv_bedfile(config, pan_number) ==
  IF pan_number \notin DOMAIN config
  THEN BedfileRaise("Error: Failed to process")
  ELSE LET cnv_bedfile == config[pan_number].ed_cnvcalling_bedfile
       IN IF cnv_bedfile # ""
          THEN BedfileReturn(BedPath(cnv_bedfile), "")
          ELSE BedfileReturn(None, "Note: Pan number found but has no CNV bedfile configured")

\* The "dx run" line of one pan number.
CnvCommand(pan_number, cnv_bedfile) ==
  [name |-> pan_number, subpanel_bed |-> cnv_bedfile,
   bamfile_pannumbers |-> pan_number]

\* The record of a call of _generate_cnv_commands: the header and the
\* commands written to the script, what each _get_cnv_bedfile call gave the
\* loop, the messages printed, and whether the script was made executable.
NotGenerated ==
  [done |-> FALSE, header |-> <<>>, script |-> <<>>, lookups |-> <<>>,
   stdout |-> <<>>, stderr |-> <<>>, executable |-> FALSE]

Lookup(pan_number, r) ==
  [pan_number |-> pan_number, raised |-> r.raised, value |-> r.value]

Say(out, message) == IF message = "" THEN out ELSE Append(out, message)

\* The loop of modules/cnv.py: continue on None, else write the command.
RECURSIVE CnvLoop(_, _, _, _)
CnvLoop(config, sorted, i, acc) ==
  IF i > Len(sorted)
  THEN [acc EXCEPT !.done = TRUE,
                   !.stdout = Append(@, "Successfully generated commands for CNV analysis")]
  ELSE LET pan_number == sorted[i]
           r          == _get_cnv_bedfile(config, pan_number)
           seen       == [acc EXCEPT !.lookups = Append(@, Lookup(pan_number, r)),
                                     !.stderr = Say(@, r.message)]
       IN IF r.value = None
          THEN CnvLoop(config, sorted, i + 1, seen)
          ELSE CnvLoop(config, sorted, i + 1,
                       [seen EXCEPT !.script = Append(@, CnvCommand(pan_number, r.value))])

\* modules/cnv.py _generate_cnv_commands: the script, initialized by the
\* caller, is opened for appending; an IOError is printed.
_generate_cnv_commands(config, pan_set, open_ok) ==
  IF open_ok
  THEN CnvLoop(config, Sorted(pan_set), 1, NotGenerated)
  ELSE [NotGenerated EXCEPT !.done = TRUE,
                            !.stdout = <<"Error writing to output file">>]

\* The header lines cnv.py writes itself.
LegacyHeader == <<"#!/bin/bash", "DEPENDS_LIST">>

\* The loop of cnv.py: the exception of _get_cnv_bedfile leaves the loop and
\* the with block (the lines written so far stay in the script) and is
\* printed by the handler of _generate_cnv_commands.
RECURSIVE LegacyCnvLoop(_, _, _, _)
LegacyCnvLoop(config, sorted, i, acc) ==
  IF i > Len(sorted)
  THEN [acc EXCEPT !.done = TRUE,
                   !.executable = TRUE,
                   !.stdout = Append(@, "Successfully generated commands for CNV analysis")]
  ELSE LET pan_number == sorted[i]
           r          == Legacy_get_cnv_bedfile(config, pan_number)
           seen       == [acc EXCEPT !.lookups = Append(@, Lookup(pan_number, r)),
                                     !.stdout = Say(@, r.message)]
       IN IF r.raised
          THEN [seen EXCEPT !.done = TRUE,
                            !.stdout = Append(@, "An unexpected error occurred while generating commands")]
          ELSE IF r.value = None
          THEN LegacyCnvLoop(config, sorted, i + 1, seen)
          ELSE LegacyCnvLoop(config, sorted, i + 1,
                 [seen EXCEPT !.script = Append(@, CnvCommand(pan_number, r.value))])

\* cnv.py _generate_cnv_commands: the script is opened for writing and
\* starts with the header.
Legacy_generate_cnv_commands(config, pan_set, open_ok) ==
  IF open_ok
  THEN LegacyCnvLoop(config, Sorted(pan_set), 1,
                     [NotGenerated EXCEPT !.header = LegacyHeader])
  ELSE [NotGenerated EXCEPT !.done = TRUE,
                            !.stdout = <<"Error writing to output file">>]

(* --------------------------- _process_workflow -------------------------- *)

GenerateIdle ==
  /\ program = "none"
  /\ sys_argv = <<>>
  /\ stdin_line = <<>>
  /\ project_id = <<>>
  /\ generate_pc = "idle"
  /\ dx_find_project = <<>>
  /\ generated_commands = <<>>

PairIdle ==
  /\ primary_files_data = <<>>
  /\ secondary_files_data = <<>>
  /\ primary_suffix = <<>>
  /\ secondary_suffix = <<>>
  /\ base_name_transform = "none"
  /\ pair_pc = "idle"
  /\ pair_result = EmptyResult
  /\ fastq_pc = "idle"
  /\ fastq_result = EmptyResult
  /\ legacy_pc = "idle"
  /\ legacy_result = EmptyResult
  /\ GenerateIdle

\* The arguments and the file system of a run in which nothing fails and
\* no file of an earlier run is there.  mode is the argument that names the
\* samples (--dxfile, --file, --sample).
NoFailure ==
  [prior_script |-> "absent", prior_failures |-> "absent",
   project |-> TRUE, output_init |-> "ok", failures_init_ok |-> TRUE,
   mode |-> "file", dx_cat_ok |-> TRUE, isfile |-> TRUE, read_ok |-> TRUE,
   temp_unlink_ok |-> TRUE, failures_unlink_ok |-> TRUE]

WorkflowIdle ==
  /\ samples_to_process = <<>>
  /\ sample_idx = 0
  /\ processed_count = 0
  /\ failed_count = 0
  /\ failures_csv = <<>>
  /\ output_file = <<>>
  /\ stdout = <<>>
  /\ failures_log = "absent"
  /\ wf_pc = "idle"
  /\ run_env = NoFailure
  /\ script_head = "absent"
  /\ sample_file = <<>>
  /\ temp_file = "none"
  /\ warnings = <<>>

PanIdle ==
  /\ manifest_content = <<>>
  /\ dx_cat_ok = TRUE
  /\ dxutils_ret = NotReturned
  /\ readcount_ret = NotReturned
  /\ cnv_ret = NotReturned

CnvIdle ==
  /\ panel_config = <<>>
  /\ cnv_pan_numbers = {}
  /\ cnv_open_ok = TRUE
  /\ cnv_run = NotGenerated
  /\ legacy_cnv_run = NotGenerated

(* ------------------------- the pairer as a run ------------------------- *)

InitPair ==
  \E c \in PairConfigs :
    \E pl \in Listings(c.primary_names), sl \in Listings(c.secondary_names) :
      /\ primary_files_data = MakeItems(pl, 0)
      /\ secondary_files_data = MakeItems(sl, Len(pl))
      /\ primary_suffix = c.primary_suffix
      /\ secondary_suffix = c.secondary_suffix
      /\ base_name_transform = c.transform
      /\ pair_pc = "call"
      /\ pair_result = EmptyResult
      /\ fastq_pc = "call"
      /\ fastq_result = EmptyResult
      /\ legacy_pc = "call"
      /\ legacy_result = EmptyResult
      /\ GenerateIdle
      /\ WorkflowIdle
      /\ PanIdle
      /\ CnvIdle

PairDxFiles ==
  /\ pair_pc = "call"
  /\ pair_result' = _pair_dx_files(primary_files_data, primary_suffix,
                                   secondary_files_data, secondary_suffix,
                                   base_name_transform)
  /\ pair_pc' = "returned"
  /\ UNCHANGED <<primary_files_data, secondary_files_data, primary_suffix,
                 secondary_suffix, base_name_transform, fastq_pc, fastq_result,
                 legacy_pc, legacy_result, genVars, wfVars,
                 panVars, cnvVars>>

\* _find_fastq_pairs runs on the listings of the two FASTQ queries.
FindFastqPairs ==
  /\ fastq_pc = "call"
  /\ base_name_transform = "r1r2"
  /\ fastq_result' = _find_fastq_pairs(primary_files_data, secondary_files_data)
  /\ fastq_pc' = "returned"
  /\ UNCHANGED <<primary_files_data, secondary_files_data, primary_suffix,
                 secondary_suffix, base_name_transform, pair_pc, pair_result,
                 legacy_pc, legacy_result, genVars, wfVars,
                 panVars, cnvVars>>

NextPair == PairDxFiles \/ FindFastqPairs

SpecPair == InitPair /\ [][NextPair]_vars

(* ------------- one pairer per run, the stand-alone ones included -------- *)

\* The calls a run makes of a pairer: BAM/BAI without a transform (coverage,
\* cov.py, picard.py), the same with the identity as transform, the read
\* suffixes with the identity, and the FASTQ pairing with the R1/R2 transform.
PairerConfigs ==
  { [primary_suffix |-> DotBam, secondary_suffix |-> DotBamBai,
     transform |-> "none", primary_names |-> BamNames, secondary_names |-> BaiNames],
    [primary_suffix |-> DotBam, secondary_suffix |-> DotBamBai,
     transform |-> "identity", primary_names |-> BamNames, secondary_names |-> BaiNames],
    [primary_suffix |-> R1FastqGz, secondary_suffix |-> R2FastqGz,
     transform |-> "identity", primary_names |-> R1Names, secondary_names |-> R2Names],
    [primary_suffix |-> RHashFastqGz, secondary_suffix |-> RHashFastqGz,
     transform |-> "r1r2", primary_names |-> R1Names, secondary_names |-> R2Names] }

InitPairers ==
  \E c \in PairerConfigs :
    \E pl \in Listings(c.primary_names), sl \in Listings(c.secondary_names) :
      /\ primary_files_data = MakeItems(pl, 0)
      /\ secondary_files_data = MakeItems(sl, Len(pl))
      /\ primary_suffix = c.primary_suffix
      /\ secondary_suffix = c.secondary_suffix
      /\ base_name_transform = c.transform
      /\ pair_pc = "call"
      /\ pair_result = EmptyResult
      /\ fastq_pc = "call"
      /\ fastq_result = EmptyResult
      /\ legacy_pc = "call"
      /\ legacy_result = EmptyResult
      /\ GenerateIdle
      /\ WorkflowIdle
      /\ PanIdle
      /\ CnvIdle

\* The run is one of a generator built on _pair_dx_files.
RunPairDxFiles == legacy_pc = "call" /\ PairDxFiles

\* The run is one of cov.py: BAM and BAI listings, no transform.
CovFindBamBaiPairs ==
  /\ legacy_pc = "call" /\ pair_pc = "call"
  /\ base_name_transform = "none"
  /\ legacy_result' = Cov_find_bam_bai_pairs(primary_files_data, secondary_files_data)
  /\ legacy_pc' = "cov"
  /\ UNCHANGED <<primary_files_data, secondary_files_data, primary_suffix,
                 secondary_suffix, base_name_transform, pair_pc, pair_result,
                 fastq_pc, fastq_result, genVars, wfVars,
                 panVars, cnvVars>>

\* The run is one of fastqmatchpair.py: R1 and R2 listings.
FindAndPairFastqFiles ==
  /\ legacy_pc = "call" /\ pair_pc = "call"
  /\ base_name_transform = "r1r2"
  /\ legacy_result' = find_and_pair_fastq_files(primary_files_data, secondary_files_data)
  /\ legacy_pc' = "fastqmatchpair"
  /\ UNCHANGED <<primary_files_data, secondary_files_data, primary_suffix,
                 secondary_suffix, base_name_transform, pair_pc, pair_result,
                 fastq_pc, fastq_result, genVars, wfVars,
                 panVars, cnvVars>>

\* The run is one of picard.py: the BAM listing alone.
FindSortedBams ==
  /\ legacy_pc = "call" /\ pair_pc = "call"
  /\ base_name_transform = "none"
  /\ legacy_result' = _find_sorted_bams(primary_files_data)
  /\ legacy_pc' = "picard"
  /\ UNCHANGED <<primary_files_data, secondary_files_data, primary_suffix,
                 secondary_suffix, base_name_transform, pair_pc, pair_result,
                 fastq_pc, fastq_result, genVars, wfVars,
                 panVars, cnvVars>>

NextPairers ==
  RunPairDxFiles \/ CovFindBamBaiPairs \/ FindAndPairFastqFiles \/ FindSortedBams

SpecPairers == InitPairers /\ [][NextPairers]_vars

(* ------------------- generate() of the coverage generator --------------- *)

ProjectPrefix == <<"p", "r", "o", "j", "e", "c", "t", "-">>

Id_project_ab == ProjectPrefix \o <<"a", "b">>
Id_padded == <<" ">> \o Id_project_ab \o <<" ">>
Id_myproject == <<"m", "y", "p", "r", "o", "j", "e", "c", "t">>
Id_blank == <<" ", " ">>

\* What can be typed at the prompt or given as an argument.
ProjectInputs == {Id_project_ab, Id_padded, Id_myproject, Id_blank, <<>>}

\* The command lines: the program name alone, with one argument, with two.
CommandLines ==
  {<<"prog">>}
    \cup {<<"prog", a>> : a \in ProjectInputs}
    \cup {<<"prog", Id_project_ab, Id_myproject>>}

\* s.startswith(t)
StartsWith(s, t) == MatchAt(s, 1, t)

\* _get_project_id_from_input (and the opening of generate() in cov.py):
\* unless the command line has exactly one argument, the project ID is
\* prompted for, stripped, and refused (None) when empty or without the
\* prefix; with exactly one argument the project ID is that argument.
\* sys_argv[2] is Python's sys.argv[1].
_get_project_id_from_input(argv, typed) ==
  IF Len(argv) # 2
  THEN LET stripped == Strip(typed)
       IN IF stripped = <<>> THEN None
          ELSE IF ~StartsWith(stripped, ProjectPrefix) THEN None
          ELSE stripped
  ELSE argv[2]

\* The file searches a project can answer with.
FoundFiles ==
  { [bam |-> <<>>, bai |-> <<>>],
    [bam |-> <<S1markdupBam>>, bai |-> <<S1markdupBai>>],
    [bam |-> <<S1markdupBam, S2markdupBam>>, bai |-> <<S2markdupBai>>] }

FoundItems(names, offset) ==
  MakeItems([i \in 1..Len(names) |->
               [name |-> names[i], has_id |-> TRUE, has_name |-> TRUE]], offset)

InitGenerate ==
  /\ WorkflowIdle
  /\ PanIdle
  /\ CnvIdle
  /\ primary_files_data = <<>>
  /\ secondary_files_data = <<>>
  /\ primary_suffix = <<>>
  /\ secondary_suffix = <<>>
  /\ base_name_transform = "none"
  /\ pair_pc = "idle"
  /\ pair_result = EmptyResult
  /\ fastq_pc = "idle"
  /\ fastq_result = EmptyResult
  /\ legacy_pc = "idle"
  /\ legacy_result = EmptyResult
  /\ program \in {"modules/coverage.py", "cov.py"}
  /\ sys_argv \in CommandLines
  /\ stdin_line \in IF Len(sys_argv) = 2 THEN {<<>>} ELSE ProjectInputs
  /\ project_id = <<>>
  /\ generate_pc = "start"
  /\ dx_find_project = <<>>
  /\ generated_commands = <<>>

\* The project ID is obtained.  modules/coverage.py returns when it is None
\* or empty; cov.py returns from the prompt branch only.
GetProjectId ==
  /\ generate_pc = "start"
  /\ project_id' = _get_project_id_from_input(sys_argv, stdin_line)
  /\ generate_pc' =
       IF program = "cov.py" /\ Len(sys_argv) = 2 THEN "search"
       ELSE IF project_id' = <<>> THEN "returned"
       ELSE "search"
  /\ UNCHANGED <<primary_files_data, secondary_files_data, primary_suffix,
                 secondary_suffix, base_name_transform, pair_pc, pair_result,
                 fastq_pc, fastq_result, legacy_pc, legacy_result, program,
                 sys_argv, stdin_line, dx_find_project, generated_commands,
                 wfVars, panVars, cnvVars>>

\* modules/coverage.py initialises the script and returns if that fails.
\* Then both programs search the project for BAM and for BAI files: "dx find
\* data --project <project_id>" exits the program when it fails, and gives
\* the two listings otherwise.
FindFiles ==
  /\ generate_pc = "search"
  /\ \E init_ok \in IF program = "cov.py" THEN {TRUE} ELSE BOOLEAN :
     \E find_ok \in BOOLEAN :
     \E found \in FoundFiles :
        IF ~init_ok
        THEN /\ generate_pc' = "returned"
             /\ UNCHANGED <<primary_files_data, secondary_files_data,
                            primary_suffix, secondary_suffix, pair_pc,
                            legacy_pc, dx_find_project>>
        ELSE IF ~find_ok
        THEN /\ generate_pc' = "exited"
             /\ dx_find_project' = <<project_id>>
             /\ UNCHANGED <<primary_files_data, secondary_files_data,
                            primary_suffix, secondary_suffix, pair_pc, legacy_pc>>
        ELSE /\ generate_pc' = "pair"
             /\ dx_find_project' = <<project_id, project_id>>
             /\ primary_files_data' = FoundItems(found.bam, 0)
             /\ secondary_files_data' = FoundItems(found.bai, Len(found.bam))
             /\ primary_suffix' = DotBam
             /\ secondary_suffix' = DotBamBai
             /\ pair_pc' = "call"
             /\ legacy_pc' = IF program = "cov.py" THEN "call" ELSE legacy_pc
  /\ UNCHANGED <<base_name_transform, pair_result, fastq_pc, fastq_result,
                 legacy_result, program, sys_argv, stdin_line, project_id,
                 generated_commands, wfVars, panVars, cnvVars>>

\* The listings are paired: by _pair_dx_files in modules/coverage.py, by
\* its own _find_bam_bai_pairs in cov.py.
PairFoundFiles ==
  /\ generate_pc = "pair"
  /\ IF program = "cov.py" THEN CovFindBamBaiPairs ELSE PairDxFiles

\* _generate_coverage_commands: one command for each pair, with the project
\* ID as its destination; no pair, no command.  A script that cannot be
\* written to exits the program.
GenerateCoverageCommands ==
  /\ generate_pc = "pair"
  /\ IF program = "cov.py" THEN legacy_pc = "cov" ELSE pair_pc = "returned"
  /\ \E bam_bai_pairs \in {IF program = "cov.py" THEN legacy_result.pairs
                           ELSE pair_result.pairs} :
     \E write_ok \in BOOLEAN :
        IF bam_bai_pairs = <<>>
        THEN generate_pc' = "returned" /\ UNCHANGED generated_commands
        ELSE IF ~write_ok
        THEN generate_pc' = "exited" /\ UNCHANGED generated_commands
        ELSE /\ generate_pc' = "returned"
             /\ generated_commands' =
                  [k \in 1..Len(bam_bai_pairs) |->
                     [bam_id |-> bam_bai_pairs[k][1],
                      bai_id |-> bam_bai_pairs[k][2],
                      dest |-> project_id]]
  /\ UNCHANGED <<primary_files_data, secondary_files_data, primary_suffix,
                 secondary_suffix, base_name_transform, pair_pc, pair_result,
                 fastq_pc, fastq_result, legacy_pc, legacy_result, program,
                 sys_argv, stdin_line, project_id, dx_find_project,
                 wfVars, panVars, cnvVars>>

NextGenerate ==
  \/ GetProjectId
  \/ FindFiles
  \/ PairFoundFiles
  \/ GenerateCoverageCommands

SpecGenerate == InitGenerate /\ [][NextGenerate]_vars

(* ------------------------ the sample loop as a run ---------------------- *)

SampleLists == UNION {[1..n -> SampleLines] : n \in 0..MaxSamples}

\* The files of a run when its sample loop starts after nothing has failed:
\* the script and the failures log hold their headers only.
AtLoopStart ==
  /\ failures_log = "exists"
  /\ wf_pc = "loop"
  /\ run_env = NoFailure
  /\ script_head = "header"
  /\ sample_file = <<>>
  /\ temp_file = "none"
  /\ warnings = <<>>

\* The state when the sample loop starts: the script and the failures log
\* hold their headers only, both counters are 0.
InitWorkflow ==
  /\ PairIdle
  /\ PanIdle
  /\ CnvIdle
  /\ samples_to_process \in SampleLists
  /\ sample_idx = 0
  /\ processed_count = 0
  /\ failed_count = 0
  /\ failures_csv = <<>>
  /\ output_file = <<>>
  /\ stdout = <<>>
  /\ AtLoopStart

\* The sample loop with a break after a failed sample.
ProcessSample_BreakOnFailure ==
  /\ sample_idx < Len(samples_to_process)
  /\ \E write_ok \in BOOLEAN :
     \E sample_name \in {FirstField(Strip(samples_to_process[sample_idx + 1]))} :
     \E result \in {_process_sample(sample_name, write_ok)} :
          /\ failures_csv' = failures_csv \o result.rows
          /\ failures_log' = IF result.rows = <<>> THEN failures_log
                             ELSE IF failures_log = "absent" THEN "exists"
                             ELSE failures_log
          /\ output_file' = output_file \o result.commands
          /\ stdout' = stdout \o result.prints
          /\ IF result.ok
             THEN /\ sample_idx' = sample_idx + 1
                  /\ processed_count' = processed_count + 1
                  /\ UNCHANGED failed_count
             ELSE /\ sample_idx' = Len(samples_to_process)
                  /\ failed_count' = failed_count + 1
                  /\ UNCHANGED processed_count
  /\ UNCHANGED <<samples_to_process, runVars, pairVars, panVars, cnvVars>>

\* One iteration of the sample loop of _process_workflow; whether the script
\* can be appended to is the file system's choice.  sample_name and result
\* are bound through singleton sets, which makes them values computed once.
ProcessSample ==
  /\ sample_idx < Len(samples_to_process)
  /\ \E write_ok \in BOOLEAN :
     \E sample_name \in {FirstField(Strip(samples_to_process[sample_idx + 1]))} :
     \E result \in {_process_sample(sample_name, write_ok)} :
          /\ sample_idx' = sample_idx + 1
          /\ failures_csv' = failures_csv \o result.rows
          /\ failures_log' = IF result.rows = <<>> THEN failures_log
                             ELSE IF failures_log = "absent" THEN "exists"
                             ELSE failures_log
          /\ output_file' = output_file \o result.commands
          /\ stdout' = stdout \o result.prints
          /\ IF result.ok
             THEN processed_count' = processed_count + 1 /\ UNCHANGED failed_count
             ELSE failed_count' = failed_count + 1 /\ UNCHANGED processed_count
  /\ UNCHANGED <<samples_to_process, runVars, pairVars, panVars, cnvVars>>

NextWorkflow == ProcessSample

SpecWorkflow == InitWorkflow /\ [][NextWorkflow]_vars

(* ------------- the sample loop of runcmd_generator.py as a run ---------- *)

Line_Comment == <<"#", " ", "r", "u", "n", " ", "1">>

Sample_Pooled ==
  <<"N", "G", "S", "6", "5", "0", "F", "F", "V", "0", "6", "P", "O", "O", "L", "2",
    "_", "W", "E", "S", "_", "P", "a", "n", "5">>

\* The lines of the sample file a run of runcmd_generator.py can read.
RuncmdSampleLists ==
  UNION {[1..n -> SampleLines \cup {Line_Comment, Sample_Pooled, <<>>}] :
           n \in 0..MaxSamples}

\* samples: the stripped lines of the file, without the empty lines and the
\* lines that start with "#".
Runcmd_samples(lines) ==
  LET kept == SelectSeq(lines,
                LAMBDA line : Strip(line) # <<>> /\ ~(line # <<>> /\ line[1] = "#"))
  IN [k \in 1..Len(kept) |-> Strip(kept[k])]

\* The state when the sample loop of runcmd_generator.py starts: the script
\* holds its header only, both counters are 0.
InitRuncmd ==
  /\ PairIdle
  /\ PanIdle
  /\ CnvIdle
  /\ samples_to_process \in RuncmdSampleLists
  /\ sample_idx = 0
  /\ processed_count = 0
  /\ failed_count = 0
  /\ failures_csv = <<>>
  /\ output_file = <<>>
  /\ stdout = <<>>
  /\ AtLoopStart

\* One iteration of the sample loop of runcmd_generator.py's
\* _process_workflow; sample_idx counts the samples handled.
RuncmdProcessSample ==
  /\ \E samples \in {Runcmd_samples(samples_to_process)} :
        /\ sample_idx < Len(samples)
        /\ \E result \in {Runcmd_process_sample(samples[sample_idx + 1])} :
              /\ sample_idx' = sample_idx + 1
              /\ failures_csv' = failures_csv \o result.rows
              /\ failures_log' = IF result.rows = <<>> THEN failures_log
                                 ELSE IF failures_log = "absent" THEN "exists"
                                 ELSE failures_log
              /\ output_file' = output_file \o result.commands
              /\ stdout' = stdout \o result.prints
              /\ IF result.ok
                 THEN processed_count' = processed_count + 1 /\ UNCHANGED failed_count
                 ELSE failed_count' = failed_count + 1 /\ UNCHANGED processed_count
  /\ UNCHANGED <<samples_to_process, runVars, pairVars, panVars, cnvVars>>

NextRuncmd == RuncmdProcessSample

SpecRuncmd == InitRuncmd /\ [][NextRuncmd]_vars

(* --------------------- _process_workflow as a run ----------------------- *)

\* [A-Za-z0-9_.-]
IsNameChar(c) == IsAlnum(c) \/ c \in {"_", ".", "-"}

\* The last position of the run of [A-Za-z0-9_.-] that starts at i.
RECURSIVE NameEnd(_, _)
NameEnd(s, i) ==
  IF i <= Len(s) /\ IsNameChar(s[i]) THEN NameEnd(s, i + 1) ELSE i - 1

\* re.match(r"^(NGS\d+[A-Za-z0-9_.-]*)(?:,.*)?", line): group(1), or None.
MatchManifestSample(line) ==
  IF MatchAt(line, 1, NGS) /\ Len(line) >= 4 /\ IsDigit(line[4])
  THEN SubSeq(line, 1, NameEnd(line, DigitsEnd(line, 4) + 1))
  ELSE None

\* samples of _extract_samples_from_dx_file: group(1) of every stripped line
\* of the manifest that matches.
ManifestSamples(lines) ==
  LET stripped == [k \in 1..Len(lines) |-> Strip(lines[k])]
      matching == SelectSeq(stripped, LAMBDA line : MatchManifestSample(line) # None)
  IN [k \in 1..Len(matching) |-> MatchManifestSample(matching[k])]

\* The lines of the manifest or of the local sample file of a run.
RunLines == {Sample_R134, Sample_NoPan, Sample_R210_comma, Line_Comment}

RunFiles == UNION {[1..n -> RunLines] : n \in 0..MaxSamples}

\* The arguments and file system outcomes of a run.  An outcome that the run
\* cannot come to is fixed at its value in NoFailure.
RunEnvs ==
  {e \in [prior_script : {"absent", "previous"},
          prior_failures : {"absent", "stale"},
          project : BOOLEAN,
          output_init : {"ok", "open_fails", "write_fails", "chmod_fails"},
          failures_init_ok : BOOLEAN,
          mode : {"dxfile", "file", "sample"},
          dx_cat_ok : BOOLEAN, isfile : BOOLEAN, read_ok : BOOLEAN,
          temp_unlink_ok : BOOLEAN, failures_unlink_ok : BOOLEAN] :
     LET started == e.project /\ e.output_init = "ok"
         extracted == started /\ e.mode = "dxfile" /\ e.dx_cat_ok
         found == started /\ (e.mode = "file" \/ extracted) /\ e.isfile
     IN /\ ~e.project => e.output_init = "ok"
        /\ ~started => e.failures_init_ok /\ e.mode = "file"
        /\ ~(started /\ e.mode = "dxfile") => e.dx_cat_ok
        /\ ~(started /\ (e.mode = "file" \/ extracted)) => e.isfile
        /\ ~found => e.read_ok
        /\ ~(extracted /\ e.isfile /\ e.read_ok) => e.temp_unlink_ok
        /\ ~(started /\ (e.mode = "sample" \/ (found /\ e.read_ok))) =>
              e.failures_unlink_ok}

\* The state when _process_workflow is called: the script and the failures
\* log may be there from an earlier run (a script with one run command, a
\* log with rows); sample_file holds the lines of the
\* manifest (--dxfile), of the local file (--file), or the sample (--sample).
InitRun ==
  /\ PairIdle
  /\ PanIdle
  /\ CnvIdle
  /\ samples_to_process = <<>>
  /\ sample_idx = 0
  /\ processed_count = 0
  /\ failed_count = 0
  /\ failures_csv = <<>>
  /\ stdout = <<>>
  /\ warnings = <<>>
  /\ temp_file = "none"
  /\ wf_pc = "start"
  /\ run_env \in RunEnvs
  /\ sample_file \in IF run_env.mode = "sample"
                     THEN {<<l>> : l \in RunLines \ {Line_Comment}}
                     ELSE RunFiles
  /\ script_head = run_env.prior_script
  /\ output_file = IF run_env.prior_script = "previous"
                   THEN _process_sample(Sample_R211, TRUE).commands
                   ELSE <<>>
  /\ failures_log = run_env.prior_failures

\* _initialize_output_file opening the script for appending.
InitializeOutputFile_Append ==
  /\ wf_pc = "start"
  /\ IF ~run_env.project
     THEN /\ wf_pc' = "returned_early"
          /\ warnings' = Append(warnings, "No project ID available")
          /\ UNCHANGED <<script_head, output_file>>
     ELSE CASE run_env.output_init = "open_fails" ->
                 /\ wf_pc' = "returned_early"
                 /\ warnings' = Append(warnings, "Error writing to output file")
                 /\ UNCHANGED <<script_head, output_file>>
            [] run_env.output_init = "write_fails" ->
                 /\ wf_pc' = "returned_early"
                 /\ warnings' = Append(warnings, "Error writing to output file")
                 /\ script_head' = "partial"
                 /\ output_file' = <<>>
            [] run_env.output_init = "chmod_fails" ->
                 /\ wf_pc' = "returned_early"
                 /\ warnings' = Append(warnings, "Error writing to output file")
                 /\ script_head' = "header"
                 /\ output_file' = <<>>
            [] run_env.output_init = "ok" ->
                 /\ wf_pc' = "failures"
                 /\ script_head' = "header"
                 /\ UNCHANGED output_file
                 /\ UNCHANGED warnings
  /\ UNCHANGED <<samples_to_process, sample_idx, processed_count, failed_count,
                 failures_csv, stdout, failures_log, run_env, sample_file,
                 temp_file, pairVars, panVars, cnvVars>>

\* The test and the call of _initialize_output_file that open
\* _process_workflow.  Opening the script for writing empties it; the header
\* is complete once the last write has returned; the run goes on only if
\* the chmod after it succeeded as well.
InitializeOutputFile ==
  /\ wf_pc = "start"
  /\ IF ~run_env.project
     THEN /\ wf_pc' = "returned_early"
          /\ warnings' = Append(warnings, "No project ID available")
          /\ UNCHANGED <<script_head, output_file>>
     ELSE CASE run_env.output_init = "open_fails" ->
                 /\ wf_pc' = "returned_early"
                 /\ warnings' = Append(warnings, "Error writing to output file")
                 /\ UNCHANGED <<script_head, output_file>>
            [] run_env.output_init = "write_fails" ->
                 /\ wf_pc' = "returned_early"
                 /\ warnings' = Append(warnings, "Error writing to output file")
                 /\ script_head' = "partial"
                 /\ output_file' = <<>>
            [] run_env.output_init = "chmod_fails" ->
                 /\ wf_pc' = "returned_early"
                 /\ warnings' = Append(warnings, "Error writing to output file")
                 /\ script_head' = "header"
                 /\ output_file' = <<>>
            [] run_env.output_init = "ok" ->
                 /\ wf_pc' = "failures"
                 /\ script_head' = "header"
                 /\ output_file' = <<>>
                 /\ UNCHANGED warnings
  /\ UNCHANGED <<samples_to_process, sample_idx, processed_count, failed_count,
                 failures_csv, stdout, failures_log, run_env, sample_file,
                 temp_file, pairVars, panVars, cnvVars>>

\* The failures log is opened for writing and its header written; if that
\* fails a warning is printed and the run goes on.
InitializeFailuresLog ==
  /\ wf_pc = "failures"
  /\ wf_pc' = "samples"
  /\ IF run_env.failures_init_ok
     THEN failures_log' = "exists" /\ UNCHANGED warnings
     ELSE /\ warnings' = Append(warnings, "Could not initialize failures CSV")
          /\ UNCHANGED failures_log
  /\ UNCHANGED <<samples_to_process, sample_idx, processed_count, failed_count,
                 failures_csv, output_file, stdout, run_env, script_head,
                 sample_file, temp_file, pairVars, panVars, cnvVars>>

\* --dxfile: _extract_samples_from_dx_file creates the temporary file, and
\* deletes it again if "dx cat" fails or no line of the manifest matches;
\* otherwise the file receives the samples, one per line.  --file: the local
\* file is the sample file.  --sample: the sample is the list.
GetSamples ==
  /\ wf_pc = "samples"
  /\ CASE run_env.mode = "dxfile" ->
            IF ~run_env.dx_cat_ok
            THEN /\ wf_pc' = "returned_early"
                 /\ temp_file' = "deleted"
                 /\ warnings' = Append(warnings, "Failed to execute dx cat")
                 /\ UNCHANGED <<sample_file, samples_to_process>>
            ELSE IF ManifestSamples(sample_file) = <<>>
            THEN /\ wf_pc' = "returned_early"
                 /\ temp_file' = "deleted"
                 /\ warnings' = Append(warnings, "No samples found in the DNAnexus file")
                 /\ UNCHANGED <<sample_file, samples_to_process>>
            ELSE /\ wf_pc' = "read"
                 /\ temp_file' = "exists"
                 /\ sample_file' = ManifestSamples(sample_file)
                 /\ UNCHANGED <<warnings, samples_to_process>>
       [] run_env.mode = "file" ->
            /\ wf_pc' = "read"
            /\ UNCHANGED <<temp_file, sample_file, warnings, samples_to_process>>
       [] run_env.mode = "sample" ->
            /\ wf_pc' = "loop"
            /\ samples_to_process' = sample_file
            /\ UNCHANGED <<temp_file, sample_file, warnings>>
  /\ UNCHANGED <<sample_idx, processed_count, failed_count, failures_csv,
                 output_file, stdout, failures_log, run_env, script_head,
                 pairVars, panVars, cnvVars>>

\* The sample file is read: if it is not there, or cannot be read, the run
\* returns, after deleting the temporary file if that still exists.
ReadSampleFile ==
  /\ wf_pc = "read"
  /\ IF ~run_env.isfile
     THEN /\ wf_pc' = "returned_early"
          /\ warnings' = Append(warnings, "Sample file not found")
          /\ temp_file' = IF temp_file = "exists" THEN "deleted" ELSE temp_file
          /\ UNCHANGED samples_to_process
     ELSE IF ~run_env.read_ok
     THEN /\ wf_pc' = "returned_early"
          /\ warnings' = Append(warnings, "Could not read sample file")
          /\ temp_file' = IF temp_file = "exists" THEN "deleted" ELSE temp_file
          /\ UNCHANGED samples_to_process
     ELSE /\ wf_pc' = "loop"
          /\ samples_to_process' = Runcmd_samples(sample_file)
          /\ UNCHANGED <<warnings, temp_file>>
  /\ UNCHANGED <<sample_idx, processed_count, failed_count, failures_csv,
                 output_file, stdout, failures_log, run_env, script_head,
                 sample_file, pairVars, panVars, cnvVars>>

\* One iteration of the sample loop.
LoopStep == wf_pc = "loop" /\ ProcessSample

\* After the loop the temporary file is deleted; if that fails (OSError) a
\* warning is printed and the file stays.
DeleteTempFile ==
  /\ wf_pc = "loop"
  /\ sample_idx = Len(samples_to_process)
  /\ wf_pc' = "summary"
  /\ IF temp_file = "exists"
     THEN IF run_env.temp_unlink_ok
          THEN temp_file' = "deleted" /\ UNCHANGED warnings
          ELSE /\ warnings' = Append(warnings, "Could not delete temporary file")
               /\ UNCHANGED temp_file
     ELSE UNCHANGED <<temp_file, warnings>>
  /\ UNCHANGED <<samples_to_process, sample_idx, processed_count, failed_count,
                 failures_csv, output_file, stdout, failures_log, run_env,
                 script_head, sample_file, pairVars, panVars, cnvVars>>

\* os.path.getsize(failures_csv_file) > len("sample_name,failure_reason\n") + 1
\* for a log that exists.
LargerThanHeader == failures_log = "stale" \/ failures_csv # <<>>

\* The summary without the removal of a failures log that holds no row.
Summary_KeepEmptyLog ==
  /\ wf_pc = "summary"
  /\ wf_pc' = "returned"
  /\ UNCHANGED failures_log
  /\ UNCHANGED <<samples_to_process, sample_idx, processed_count, failed_count,
                 failures_csv, output_file, stdout, run_env, script_head,
                 sample_file, temp_file, warnings, pairVars, panVars, cnvVars>>

\* The summary: the failures log is kept if a sample failed or the log holds
\* more than its header; otherwise it is deleted, and a failure to delete it
\* is passed over in silence.
Summary ==
  /\ wf_pc = "summary"
  /\ wf_pc' = "returned"
  /\ IF failed_count > 0 \/ (failures_log # "absent" /\ LargerThanHeader)
     THEN UNCHANGED failures_log
     ELSE IF failures_log # "absent" /\ run_env.failures_unlink_ok
     THEN failures_log' = "absent"
     ELSE UNCHANGED failures_log
  /\ UNCHANGED <<samples_to_process, sample_idx, processed_count, failed_count,
                 failures_csv, output_file, stdout, run_env, script_head,
                 sample_file, temp_file, warnings, pairVars, panVars, cnvVars>>

NextRun ==
  \/ InitializeOutputFile
  \/ InitializeFailuresLog
  \/ GetSamples
  \/ ReadSampleFile
  \/ LoopStep
  \/ DeleteTempFile
  \/ Summary

SpecRun == InitRun /\ [][NextRun]_vars

(* ------------- sample processing of names that differ in tokens --------- *)

\* Where the batch token and the Pan code of an accepted name start.
BatchAt(s) ==
  Leftmost({i \in 1..Len(s) :
              /\ MatchAt(s, i, NGS)
              /\ i + 3 <= Len(s) /\ IsDigit(s[i + 3])
              /\ LET j == AlnumEnd(s, i + 3)
                 IN j = Len(s) \/ s[j + 1] = "_"})

PanAt(s) ==
  Leftmost({i \in 1..Len(s) :
              /\ MatchAtIgnoreCase(s, i, Pan)
              /\ i + 3 <= Len(s) /\ IsDigit(s[i + 3])})

\* s with the n characters from position i replaced by t.
Splice(s, i, n, t) == SubSeq(s, 1, i - 1) \o t \o SubSeq(s, i + n, Len(s))

\* The batch token and the Pan code of the accepted name s lie apart.
TokensApart(s) ==
  \/ BatchAt(s) + Len(SearchBatch(s)) <= PanAt(s)
  \/ PanAt(s) + Len(SearchPanCode(s)) <= BatchAt(s)

\* The accepted name s with batch and pan_code in the places of its batch
\* token and its Pan code.
WithTokens(s, batch, pan_code) ==
  LET bi == BatchAt(s)
      bn == Len(SearchBatch(s))
      pi == PanAt(s)
      pn == Len(SearchPanCode(s))
  IN IF bi < pi
     THEN Splice(Splice(s, pi, pn, pan_code), bi, bn, batch)
     ELSE Splice(Splice(s, bi, bn, batch), pi, pn, pan_code)

Batch_NGS002 == <<"N", "G", "S", "0", "0", "2">>
Batch_NGS001R210 == <<"N", "G", "S", "0", "0", "1", "R", "2", "1", "0">>
Batch_NGS7NA12878 == <<"N", "G", "S", "7", "N", "A", "1", "2", "8", "7", "8">>
Pan5 == <<"P", "a", "n", "5">>

OtherBatches == {Batch_NGS002, Batch_NGS001R210, Batch_NGS7NA12878}
OtherPanCodes == {Pan5}

Accepts(s) == _process_sample(s, TRUE).ok

\* The sample lines that are accepted names, each with another batch token,
\* another Pan code, both or neither (<<>>: the token of the line is kept).
TokenChoices ==
  {x \in SampleLines \X (OtherBatches \cup {<<>>}) \X (OtherPanCodes \cup {<<>>}) :
     /\ FirstField(Strip(x[1])) = x[1]
     /\ Accepts(x[1])
     /\ TokensApart(x[1])}

\* The state when the loop starts on a list of two: a sample line and the
\* line with the tokens chosen for it.
InitTokenVariants ==
  /\ PairIdle
  /\ PanIdle
  /\ CnvIdle
  /\ samples_to_process \in
       {<<x[1], WithTokens(x[1],
                           IF x[2] = <<>> THEN SearchBatch(x[1]) ELSE x[2],
                           IF x[3] = <<>> THEN SearchPanCode(x[1]) ELSE x[3])>> :
          x \in TokenChoices}
  /\ sample_idx = 0
  /\ processed_count = 0
  /\ failed_count = 0
  /\ failures_csv = <<>>
  /\ output_file = <<>>
  /\ stdout = <<>>
  /\ AtLoopStart

NextTokenVariants == ProcessSample

SpecTokenVariants == InitTokenVariants /\ [][NextTokenVariants]_vars

(* ----------------------- pan extraction as a run ------------------------ *)

Manifests == UNION {[1..n -> ManifestLines] : n \in 0..MaxLines}

InitPan ==
  /\ PairIdle
  /\ WorkflowIdle
  /\ CnvIdle
  /\ \E lines \in Manifests : manifest_content = JoinLines(lines)
  /\ dx_cat_ok \in BOOLEAN
  /\ dxutils_ret = NotReturned
  /\ readcount_ret = NotReturned
  /\ cnv_ret = NotReturned

ExtractPanNumbers ==
  /\ ~dxutils_ret.returned
  /\ dxutils_ret' = extract_pan_numbers(dx_cat_ok, manifest_content)
  /\ UNCHANGED <<manifest_content, dx_cat_ok, readcount_ret, cnv_ret,
                 pairVars, wfVars, cnvVars>>

ReadcountExtractPanNumbers ==
  /\ ~readcount_ret.returned
  /\ readcount_ret' = Readcount_extract_pan_numbers(dx_cat_ok, manifest_content)
  /\ UNCHANGED <<manifest_content, dx_cat_ok, dxutils_ret, cnv_ret,
                 pairVars, wfVars, cnvVars>>

CnvExtractPanNumbers ==
  /\ ~cnv_ret.returned
  /\ cnv_ret' = CNV_extract_pan_numbers(dx_cat_ok, manifest_content)
  /\ UNCHANGED <<manifest_content, dx_cat_ok, dxutils_ret, readcount_ret,
                 pairVars, wfVars, cnvVars>>

NextPan ==
  ExtractPanNumbers \/ ReadcountExtractPanNumbers \/ CnvExtractPanNumbers

SpecPan == InitPan /\ [][NextPan]_vars

(* ---------------------- CNV command generation as a run ----------------- *)

\* generate() goes on to _generate_cnv_commands only with a non-empty set.
PanNumberSets ==
  {S \in SUBSET PanCodes : S # {} /\ Cardinality(S) <= MaxPans}

InitCnv ==
  /\ PairIdle
  /\ WorkflowIdle
  /\ PanIdle
  /\ panel_config \in PanelConfigs
  /\ cnv_pan_numbers \in PanNumberSets
  /\ cnv_open_ok \in BOOLEAN
  /\ cnv_run = NotGenerated
  /\ legacy_cnv_run = NotGenerated

GenerateCnvCommands ==
  /\ ~cnv_run.done
  /\ cnv_run' = _generate_cnv_commands(panel_config, cnv_pan_numbers, cnv_open_ok)
  /\ UNCHANGED <<panel_config, cnv_pan_numbers, cnv_open_ok, legacy_cnv_run,
                 pairVars, wfVars, panVars>>

LegacyGenerateCnvCommands ==
  /\ ~legacy_cnv_run.done
  /\ legacy_cnv_run' =
       Legacy_generate_cnv_commands(panel_config, cnv_pan_numbers, cnv_open_ok)
  /\ UNCHANGED <<panel_config, cnv_pan_numbers, cnv_open_ok, cnv_run,
                 pairVars, wfVars, panVars>>

NextCnv == GenerateCnvCommands \/ LegacyGenerateCnvCommands

SpecCnv == InitCnv /\ [][NextCnv]_vars

(* ======================================================================= *)
(*                     Properties of the file pairer                       *)
(* ======================================================================= *)

WellFormed(item) == item.has_id /\ item.has_name

\* The listing records that pass the suffix test of _pair_dx_files.
Accepted(files_data, suffix) ==
  {i \in 1..Len(files_data) :
     /\ WellFormed(files_data[i])
     /\ EndsWith(ApplyTransform(base_name_transform, files_data[i].name), suffix)}

\* The pairing key of an accepted record.
BaseName(item, suffix) ==
  DropLast(ApplyTransform(base_name_transform, item.name), Len(suffix))

BaseNames(files_data, suffix) ==
  {BaseName(files_data[i], suffix) : i \in Accepted(files_data, suffix)}

\* The id a listing records for a base name: that of its last record.
RecordedId(files_data, suffix, base_name) ==
  LET last == CHOOSE i \in Accepted(files_data, suffix) :
                /\ BaseName(files_data[i], suffix) = base_name
                /\ \A j \in Accepted(files_data, suffix) :
                     BaseName(files_data[j], suffix) = base_name => j <= i
  IN files_data[last].id

PairsOf(result) == {result.pairs[i] : i \in 1..Len(result.pairs)}

Warned(result, kinds, side, id, name) ==
  \E k \in 1..Len(result.stderr) :
     /\ result.stderr[k].kind \in kinds
     /\ result.stderr[k].side = side
     /\ result.stderr[k].id = id
     /\ result.stderr[k].name = name

\* C1 as stated: matched pairs plus unpaired primaries equal the number of
\* primary records whose (transformed) name ends with the primary suffix.
C1_Original ==
  pair_pc = "returned" =>
    Len(pair_result.pairs) + pair_result.unpaired_primary_count
      = Cardinality(Accepted(primary_files_data, primary_suffix))

\* C1 (amended): matched pairs plus unpaired primaries equal the number of
\* distinct base names among the well-formed primary records whose
\* (transformed) name ends with the primary suffix; records sharing a base
\* name count once.
C1_PairingCompleteness ==
  pair_pc = "returned" =>
    Len(pair_result.pairs) + pair_result.unpaired_primary_count
      = Cardinality(BaseNames(primary_files_data, primary_suffix))

C1_Witness ==
  /\ pair_pc = "returned"
  /\ Len(pair_result.pairs) = 1
  /\ pair_result.unpaired_primary_count = 1

\* Scenario A: S1markdup.bam (f1) against S1markdup.bam.bai (f2).
ScenarioA ==
  /\ primary_files_data =
       <<[id |-> "f1", name |-> S1markdupBam, has_id |-> TRUE, has_name |-> TRUE]>>
  /\ secondary_files_data =
       <<[id |-> "f2", name |-> S1markdupBai, has_id |-> TRUE, has_name |-> TRUE]>>
  /\ primary_suffix = DotBam
  /\ secondary_suffix = DotBamBai

\* C2: the matched pairs are exactly the base names present in both sets,
\* each emitted once as (id recorded for it in the primary set, id recorded
\* for it in the secondary set); Scenario A gives the single pair (f1, f2)
\* and both counts 0.
C2_MatchedPairs ==
  pair_pc = "returned" =>
    LET common == BaseNames(primary_files_data, primary_suffix)
                    \cap BaseNames(secondary_files_data, secondary_suffix)
    IN /\ PairsOf(pair_result) =
            {<<RecordedId(primary_files_data, primary_suffix, b),
               RecordedId(secondary_files_data, secondary_suffix, b)>> : b \in common}
       /\ Len(pair_result.pairs) = Cardinality(common)
       /\ ScenarioA =>
            /\ pair_result.pairs = << <<"f1", "f2">> >>
            /\ pair_result.unpaired_primary_count = 0
            /\ pair_result.orphaned_secondary_count = 0

C2_Witness == pair_pc = "returned" /\ ScenarioA

\* The base name of the primary record that carries this id.
BaseOfPrimaryId(id) ==
  LET i == CHOOSE k \in Accepted(primary_files_data, primary_suffix) :
             primary_files_data[k].id = id
  IN BaseName(primary_files_data[i], primary_suffix)

\* C3: the matched pairs are in ascending lexicographic order of the base
\* name, whatever the order of the input records.
C3_SortedByBaseName ==
  pair_pc = "returned" =>
    \A i, j \in 1..Len(pair_result.pairs) :
       i < j => StrLess(BaseOfPrimaryId(pair_result.pairs[i][1]),
                        BaseOfPrimaryId(pair_result.pairs[j][1]))

\* Two pairs were matched from primary records listed in descending order.
C3_Witness ==
  /\ pair_pc = "returned"
  /\ Len(pair_result.pairs) = 2
  /\ Len(primary_files_data) = 2
  /\ Accepted(primary_files_data, primary_suffix) = {1, 2}
  /\ StrLess(BaseName(primary_files_data[2], primary_suffix),
             BaseName(primary_files_data[1], primary_suffix))

\* Scenario B: A_R1.fastq.gz (f1) against an empty secondary listing, with
\* the R1/R2 name transform.
ScenarioB_Input ==
  /\ primary_files_data =
       <<[id |-> "f1", name |-> A_R1, has_id |-> TRUE, has_name |-> TRUE]>>
  /\ secondary_files_data = <<>>
  /\ base_name_transform = "r1r2"

\* C4 as stated: with the suffixes "_R1.fastq.gz" / "_R2.fastq.gz" Scenario B
\* yields no pair and an unpaired-primary count of 1.
C4_Original ==
  (/\ pair_pc = "returned"
   /\ ScenarioB_Input
   /\ primary_suffix = R1FastqGz
   /\ secondary_suffix = R2FastqGz)
  => /\ pair_result.pairs = <<>>
     /\ pair_result.unpaired_primary_count = 1

\* C4 (amended): Scenario B yields no pair and an unpaired-primary count of 1
\* when the suffixes are those of the transformed names ("_R#.fastq.gz"), and
\* in _find_fastq_pairs; with the suffixes "_R1.fastq.gz" / "_R2.fastq.gz" the
\* transformed name no longer ends with the primary suffix, so the record is
\* skipped with a suffix warning and the unpaired count is 0.  In general a
\* primary record that passes the suffix test and has no mate is counted as
\* one unpaired primary.
C4_UnpairedR1 ==
  /\ (pair_pc = "returned" /\ ScenarioB_Input) =>
        /\ pair_result.pairs = <<>>
        /\ primary_suffix = RHashFastqGz =>
              pair_result.unpaired_primary_count = 1
        /\ primary_suffix = R1FastqGz =>
              /\ pair_result.unpaired_primary_count = 0
              /\ Warned(pair_result, {"suffix_mismatch"}, "primary", "f1",
                        ApplyTransform("r1r2", A_R1))
  /\ (fastq_pc = "returned" /\ ScenarioB_Input) =>
        /\ fastq_result.pairs = <<>>
        /\ fastq_result.unpaired_primary_count = 1
  /\ pair_pc = "returned" =>
        /\ \A i \in Accepted(primary_files_data, primary_suffix) :
              LET b == BaseName(primary_files_data[i], primary_suffix)
              IN b \notin BaseNames(secondary_files_data, secondary_suffix) =>
                   Warned(pair_result, {"unpaired_primary"}, "primary",
                          RecordedId(primary_files_data, primary_suffix, b), b)
        /\ pair_result.unpaired_primary_count =
             Cardinality(BaseNames(primary_files_data, primary_suffix)
                           \ BaseNames(secondary_files_data, secondary_suffix))

C4_Witness ==
  /\ pair_pc = "returned"
  /\ fastq_pc = "returned"
  /\ ScenarioB_Input
  /\ primary_suffix = RHashFastqGz
  /\ pair_result.unpaired_primary_count = 1

\* C5: with the roles and suffixes of the two listings swapped, the
\* unpaired-primary and orphaned-secondary counts are swapped and the number
\* of matched pairs is the same.
C5_OrphanSymmetry ==
  pair_pc = "returned" =>
    LET swapped == _pair_dx_files(secondary_files_data, secondary_suffix,
                                  primary_files_data, primary_suffix,
                                  base_name_transform)
    IN /\ swapped.unpaired_primary_count = pair_result.orphaned_secondary_count
       /\ swapped.orphaned_secondary_count = pair_result.unpaired_primary_count
       /\ Len(swapped.pairs) = Len(pair_result.pairs)

C5_Witness ==
  /\ pair_pc = "returned"
  /\ Len(pair_result.pairs) = 1
  /\ pair_result.unpaired_primary_count = 1
  /\ pair_result.orphaned_secondary_count = 0

\* A record is accounted for: in a matched pair, counted (and warned about)
\* as unpaired or orphaned, or reported by a skip warning.
Accounted(result, files_data, i, side) ==
  LET item == files_data[i] IN
  IF ~WellFormed(item)
  THEN Warned(result, {"missing_key"}, side, item.id, item.name)
  ELSE \/ \E p \in PairsOf(result) : p[IF side = "primary" THEN 1 ELSE 2] = item.id
       \/ \E k \in 1..Len(result.stderr) :
             /\ result.stderr[k].kind \in
                  {"unpaired_primary", "orphaned_secondary", "suffix_mismatch"}
             /\ result.stderr[k].side = side
             /\ result.stderr[k].id = item.id

\* A later record of the same listing has the same base name.
Superseded(files_data, suffix, i) ==
  /\ i \in Accepted(files_data, suffix)
  /\ \E j \in Accepted(files_data, suffix) :
        j > i /\ BaseName(files_data[j], suffix) = BaseName(files_data[i], suffix)

\* C6 as stated: every input record is in a matched pair, counted as an
\* unpaired primary or an orphaned secondary, or reported by a skip warning.
C6_Original ==
  pair_pc = "returned" =>
    /\ \A i \in 1..Len(primary_files_data) :
          Accounted(pair_result, primary_files_data, i, "primary")
    /\ \A i \in 1..Len(secondary_files_data) :
          Accounted(pair_result, secondary_files_data, i, "secondary")

\* C6 (amended): every input record is in a matched pair, counted as an
\* unpaired primary or an orphaned secondary, reported by a skip warning, or
\* superseded without any warning by a later record of the same listing that
\* has the same base name.
C6_NoSilentDrop ==
  pair_pc = "returned" =>
    /\ \A i \in 1..Len(primary_files_data) :
          \/ Accounted(pair_result, primary_files_data, i, "primary")
          \/ Superseded(primary_files_data, primary_suffix, i)
    /\ \A i \in 1..Len(secondary_files_data) :
          \/ Accounted(pair_result, secondary_files_data, i, "secondary")
          \/ Superseded(secondary_files_data, secondary_suffix, i)

\* A listing with a suffix mismatch, a record lacking a key and a duplicate.
C6_Witness ==
  /\ pair_pc = "returned"
  /\ \E k \in 1..Len(pair_result.stderr) : pair_result.stderr[k].kind = "suffix_mismatch"
  /\ \E k \in 1..Len(pair_result.stderr) : pair_result.stderr[k].kind = "missing_key"
  /\ \E i \in 1..Len(secondary_files_data) :
        Superseded(secondary_files_data, secondary_suffix, i)

(* ======================================================================= *)
(*                   Properties of sample processing                       *)
(* ======================================================================= *)

\* The name holds "R" followed by a digit somewhere.
HasRunToken(s) == \E i \in 1..Len(s) : s[i] = "R" /\ i < Len(s) /\ IsDigit(s[i + 1])

\* The name holds "WES" in some letter case ("SingletonWES" ends with it).
HasWesMarker(s) == \E i \in 1..Len(s) : MatchAtIgnoreCase(s, i, WES)

\* r is "R", digits, and at most one "." followed by digits.
RunShape(r) ==
  /\ Len(r) >= 2
  /\ r[1] = "R"
  /\ IsDigit(r[2])
  /\ IsDigit(r[Len(r)])
  /\ \A k \in 2..Len(r) : IsDigit(r[k]) \/ r[k] = "."
  /\ Cardinality({k \in 2..Len(r) : r[k] = "."}) <= 1

\* r is the first match of R + digits + optional ".digits" in s: it starts at
\* the first "R" that a digit follows and cannot be extended.
FirstRunMatch(s, r) ==
  LET i == CHOOSE k \in 1..Len(s) :
             /\ s[k] = "R" /\ k < Len(s) /\ IsDigit(s[k + 1])
             /\ \A m \in 1..(k - 1) : ~(s[m] = "R" /\ IsDigit(s[m + 1]))
      e == i + Len(r)
  IN /\ RunShape(r)
     /\ MatchAt(s, i, r)
     /\ ~(e <= Len(s) /\ IsDigit(s[e]))
     /\ (\A k \in 1..Len(r) : r[k] # ".") =>
           ~(e < Len(s) /\ s[e] = "." /\ IsDigit(s[e + 1]))

\* The script and the printed summaries grow together, one entry per
\* accepted sample.
Aligned ==
  /\ Len(stdout) = Len(output_file)
  /\ \A k \in 1..Len(stdout) : stdout[k].sample_name = output_file[k].sample_name

\* C7 in modules/workflow.py (holds of SpecWorkflow, C7_Witness reached):
\* a name holding R + digits gets its first such match as run number,
\* even when it also holds WES; otherwise a name holding "SingletonWES" or
\* "WES" in any letter case gets the sentinel "WES" and is not rejected for
\* a missing run number.
C7_RunNumberPriority ==
  /\ \A k \in 1..Len(stdout) :
        LET s == stdout[k].sample_name
            r == stdout[k].r_number
        IN /\ HasRunToken(s) => FirstRunMatch(s, r)
           /\ ~HasRunToken(s) => (r = WES /\ HasWesMarker(s))
           /\ s = Sample_R134_WES => r = R134
           /\ s = Sample_R134_R210 => r = R134
           /\ s = Sample_WES_R211_2 => r = R211 \o <<".", "2">>
           /\ s \in {Sample_SingletonWES, Sample_wes, Sample_NA12878_WES} => r = WES
  /\ \A k \in 1..Len(failures_csv) :
        failures_csv[k].failure_reason = "Could not extract R number" =>
          /\ ~HasRunToken(failures_csv[k].sample_name)
          /\ ~HasWesMarker(failures_csv[k].sample_name)
  /\ \A k \in 1..sample_idx :
        LET s == FirstField(Strip(samples_to_process[k]))
        IN (~HasRunToken(s) /\ ~HasWesMarker(s)) =>
             \E j \in 1..Len(failures_csv) :
                /\ failures_csv[j].sample_name = s
                /\ failures_csv[j].failure_reason = "Could not extract R number"

C7_Witness ==
  /\ sample_idx = 2
  /\ Len(stdout) = 2
  /\ stdout[1].sample_name = Sample_R134_WES /\ stdout[1].r_number = R134
  /\ stdout[2].sample_name = Sample_wes /\ stdout[2].r_number = WES

\* C7 in runcmd_generator.py: a name holding R + digits gets its first such
\* match as run number; otherwise a name holding "SingletonWES" or "WES" in
\* any letter case gets the sentinel "WES" and is not rejected for a missing
\* run number.
C7_WesInAnyLetterCase ==
  /\ \A k \in 1..Len(stdout) :
        LET s == stdout[k].sample_name
            r == stdout[k].r_number
        IN /\ HasRunToken(s) => FirstRunMatch(s, r)
           /\ ~HasRunToken(s) => (r = WES /\ HasWesMarker(s))
  /\ \A k \in 1..Len(failures_csv) :
        failures_csv[k].failure_reason = "Missing R number" =>
          /\ ~HasRunToken(failures_csv[k].sample_name)
          /\ ~HasWesMarker(failures_csv[k].sample_name)

\* C8: PRS is enabled (skip = false) exactly when the run number is the
\* string "R134"; "R134.1", "R1345" and the "WES" sentinel leave it skipped.
C8_PrsOnlyR134 ==
  /\ Aligned
  /\ \A k \in 1..Len(output_file) :
        /\ output_file[k].prs_skip \in {"true", "false"}
        /\ (output_file[k].prs_skip = "false") <=> (stdout[k].r_number = R134)
        /\ output_file[k].sample_name = Sample_R134 =>
              output_file[k].prs_skip = "false"
        /\ output_file[k].sample_name \in
              {Sample_R134_1, Sample_R1345, Sample_SingletonWES, Sample_wes} =>
              output_file[k].prs_skip = "true"

C8_Witness ==
  /\ Len(output_file) = 2
  /\ output_file[1].sample_name = Sample_R134 /\ output_file[1].prs_skip = "false"
  /\ output_file[2].sample_name = Sample_R134_1 /\ output_file[2].prs_skip = "true"

\* C9: PolyEdge parameters are emitted exactly when the run number is "R210"
\* or "R211", and are then the fixed bundle gene=MSH2, chrom=2,
\* poly_start=47641559, poly_end=47641586; otherwise the string is empty.
C9_PolyEdgeOnlyR210R211 ==
  /\ Aligned
  /\ \A k \in 1..Len(output_file) :
        LET params == output_file[k].polyedge_params
            Value(input) ==
              params[CHOOSE n \in 1..Len(params) : params[n][1] = input][2]
        IN /\ (params # <<>>) <=> (stdout[k].r_number \in {R210, R211})
           /\ params # <<>> =>
                /\ Value("gene") = "MSH2"
                /\ Value("chrom") = "2"
                /\ Value("poly_start") = "47641559"
                /\ Value("poly_end") = "47641586"
           /\ output_file[k].sample_name \in {Sample_R210, Sample_R211} =>
                params # <<>>
           /\ output_file[k].sample_name \in
                {Sample_WES_R211_2, Sample_R134, Sample_wes} => params = <<>>

C9_Witness ==
  /\ Len(output_file) = 2
  /\ output_file[1].sample_name = Sample_R211
  /\ output_file[1].polyedge_params # <<>>
  /\ output_file[2].sample_name = Sample_WES_R211_2
  /\ output_file[2].polyedge_params = <<>>

\* The sample names of the run that hold "NA12878" as written.
ControlSamples == {Sample_NA12878_R134, Sample_NA12878_WES}

\* C10: the vcf_eval stage is enabled (skip = false) exactly when the sample
\* name holds the substring "NA12878" in this letter case, whatever its run
\* number, Pan code and batch.
C10_ControlStage ==
  /\ Aligned
  /\ \A k \in 1..Len(output_file) :
        /\ output_file[k].cnv_stage_skip \in {"true", "false"}
        /\ (output_file[k].cnv_stage_skip = "false")
              <=> (\E i \in 1..Len(output_file[k].sample_name) :
                     MatchAt(output_file[k].sample_name, i, NA12878))
        /\ (output_file[k].cnv_stage_skip = "false")
              <=> (output_file[k].sample_name \in ControlSamples)

\* Two control samples that differ in run number, Pan code and batch, after
\* a sample that spells the marker in lower case.
C10_Witness ==
  /\ Len(output_file) = 2
  /\ output_file[1].sample_name = Sample_NA12878_WES
  /\ output_file[1].cnv_stage_skip = "false"
  /\ stdout[1].r_number = WES
  /\ output_file[2].sample_name = Sample_na12878_R210
  /\ output_file[2].cnv_stage_skip = "true"

(* ======================================================================= *)
(*                     Properties of pan-number extraction                 *)
(* ======================================================================= *)

\* The first substring of the line, from the left, that is "Pan" in any
\* letter case followed by a maximal run of one or more digits (a set of at
\* most one element).
PanTokens(line) ==
  LET IsPanAt(i) == /\ i + 3 <= Len(line)
                    /\ Lower(line[i]) = "p"
                    /\ Lower(line[i + 1]) = "a"
                    /\ Lower(line[i + 2]) = "n"
                    /\ IsDigit(line[i + 3])
      starts == {i \in 1..Len(line) : IsPanAt(i)}
      firsts == {i \in starts : \A h \in starts : i <= h}
      IsEnd(i, j) == /\ \A k \in (i + 3)..j : IsDigit(line[k])
                     /\ (j = Len(line) \/ ~IsDigit(line[j + 1]))
  IN UNION {{SubSeq(line, i, j) : j \in {e \in (i + 3)..Len(line) : IsEnd(i, e)}} :
              i \in firsts}

\* The tokens of all the lines of a manifest.
ManifestTokens(content) ==
  LET lines == SplitLines(content)
  IN UNION {PanTokens(lines[i]) : i \in 1..Len(lines)}

Reverse(s) == [i \in 1..Len(s) |-> s[Len(s) + 1 - i]]

\* C11: every pan-number extractor, once it has read the manifest, returns a
\* set (never None): the set that holds, for each line, the first
\* case-insensitive "Pan"+digits token of that line and nothing else, so at
\* most one token per line, duplicates collapsed, the same set for the lines
\* in reverse order, and the empty set for an empty manifest or one without
\* a match.
C11_PanExtraction ==
  \A ret \in {dxutils_ret, readcount_ret, cnv_ret} :
    (ret.returned /\ dx_cat_ok) =>
      /\ ~ret.none
      /\ ret.pan_numbers = ManifestTokens(manifest_content)
      /\ Cardinality(ret.pan_numbers) <= Len(SplitLines(manifest_content))
      /\ ret.pan_numbers =
           ManifestTokens(JoinLines(Reverse(SplitLines(manifest_content))))

\* "dx cat" gave a manifest without any token and readcount.py's extractor
\* has returned.
C11_Witness ==
  /\ dx_cat_ok
  /\ readcount_ret.returned
  /\ ManifestTokens(manifest_content) = {}

\* C12: each element of the set returned by DXUtils.extract_pan_numbers is a
\* substring of a manifest line, letter for letter in the case the line has
\* it, and each line's first token is in the set as the line spells it.
C12_CasingPreserved ==
  (dxutils_ret.returned /\ dx_cat_ok) =>
    LET lines == SplitLines(manifest_content)
    IN /\ \A tok \in dxutils_ret.pan_numbers :
            \E i \in 1..Len(lines) :
               \E k \in 1..Len(lines[i]) : MatchAt(lines[i], k, tok)
       /\ \A i \in 1..Len(lines) :
            PanTokens(lines[i]) \subseteq dxutils_ret.pan_numbers

\* A manifest with "pan123" on one line and "Pan123" on another: both
\* spellings are in the returned set.
C12_Witness ==
  /\ dx_cat_ok
  /\ dxutils_ret.returned
  /\ <<"p", "a", "n", "1", "2", "3">> \in dxutils_ret.pan_numbers
  /\ <<"P", "a", "n", "1", "2", "3">> \in dxutils_ret.pan_numbers

(* ======================================================================= *)
(*                 Properties of rejection and the sample loop             *)
(* ======================================================================= *)

\* The sample name the k-th iteration of the loop works on.
SampleName(k) == FirstField(Strip(samples_to_process[k]))

\* Neither "R" + digits nor a WES marker: no run number can be derived.
NoRunNumber(s) == ~HasRunToken(s) /\ ~HasWesMarker(s)

\* No "Pan" + digits in any letter case.
NoPanCode(s) == PanTokens(s) = {}

FailureRow(s, reason) == [sample_name |-> s, failure_reason |-> reason]

C14_MissingPanRejected ==
  [][(sample_idx' = sample_idx + 1 /\ ~NoRunNumber(SampleName(sample_idx + 1))) =>
       LET s == SampleName(sample_idx + 1)
       IN /\ NoPanCode(s) =>
               /\ failures_csv' =
                    Append(failures_csv, FailureRow(s, "Could not extract Pan code"))
               /\ failed_count' = failed_count + 1
               /\ processed_count' = processed_count
               /\ output_file' = output_file
          /\ ~NoPanCode(s) =>
               \A j \in (Len(failures_csv) + 1)..Len(failures_csv') :
                  failures_csv'[j].failure_reason # "Could not extract Pan code"]_vars

\* "NGS001_R134", with run number R134 and no Pan code, was rejected.
C14_Witness ==
  /\ sample_idx >= 1
  /\ SampleName(1) = Sample_NoPan
  /\ failures_csv[1] = FailureRow(Sample_NoPan, "Could not extract Pan code")
  /\ output_file = <<>>

\* C15 as stated: the iteration for a sample name without run number and
\* without Pan code reports both reasons for it.
C15_Original ==
  [][(/\ sample_idx' = sample_idx + 1
      /\ NoRunNumber(SampleName(sample_idx + 1))
      /\ NoPanCode(SampleName(sample_idx + 1))) =>
       LET s    == SampleName(sample_idx + 1)
           news == (Len(failures_csv) + 1)..Len(failures_csv')
       IN /\ \E j \in news :
               failures_csv'[j] = FailureRow(s, "Could not extract R number")
          /\ \E j \in news :
               failures_csv'[j] = FailureRow(s, "Could not extract Pan code")]_vars

\* C15: the iteration for a sample name without run number and without Pan
\* code stops at the run-number check: it adds exactly one row, which gives
\* the run-number reason, and no row with the Pan-code reason.
C15_FirstFailureOnly ==
  [][(/\ sample_idx' = sample_idx + 1
      /\ NoRunNumber(SampleName(sample_idx + 1))
      /\ NoPanCode(SampleName(sample_idx + 1))) =>
       LET s == SampleName(sample_idx + 1)
       IN /\ Len(failures_csv') = Len(failures_csv) + 1
          /\ failures_csv'[Len(failures_csv')] =
               FailureRow(s, "Could not extract R number")
          /\ \A j \in 1..Len(failures_csv') :
               failures_csv'[j].sample_name = s =>
                 failures_csv'[j].failure_reason # "Could not extract Pan code"]_vars

\* "garbage_no_markers", without run number and without Pan code, has been
\* through the loop.
C15_Witness ==
  /\ sample_idx = 1
  /\ SampleName(1) = Sample_garbage
  /\ NoRunNumber(Sample_garbage) /\ NoPanCode(Sample_garbage)
  /\ Len(failures_csv) = 1

\* A sample is rejected when one of the three extractions finds nothing.
IsRejected(s) == NoRunNumber(s) \/ NoPanCode(s) \/ SearchBatch(s) = None

\* C16: when the batch has been processed, the failures log holds as many
\* rows as samples were counted as failed: one row for each rejected sample
\* of the list (as many rows with a name as rejected entries with that
\* name) and none for an accepted one.
C16_OneRowPerRejected ==
  sample_idx = Len(samples_to_process) =>
    /\ Len(failures_csv) = failed_count
    /\ \A k \in 1..Len(samples_to_process) :
         LET s == SampleName(k)
         IN Cardinality({j \in 1..Len(failures_csv) : failures_csv[j].sample_name = s})
              = IF IsRejected(s)
                THEN Cardinality({h \in 1..Len(samples_to_process) : SampleName(h) = s})
                ELSE 0

Absent(p) == p \notin DOMAIN panel_config

Bedless(p) == p \in DOMAIN panel_config /\ panel_config[p].ed_cnvcalling_bedfile = ""

Configured(p) == p \in DOMAIN panel_config /\ panel_config[p].ed_cnvcalling_bedfile # ""

\* The commands a run wrote for pan number p.
CommandsFor(run, p) ==
  {k \in 1..Len(run.script) : run.script[k].bamfile_pannumbers = p}

\* The commands of a run are in ascending order of pan number.
Ascending(run) ==
  \A k, l \in 1..Len(run.script) :
     k < l => StrLess(run.script[k].bamfile_pannumbers,
                      run.script[l].bamfile_pannumbers)

\* C18: what _get_cnv_bedfile of modules/cnv.py gives its caller for a pan
\* number absent from the panel table differs from what it gives for a pan
\* number that is in the table without CNV bed file.
C18_DistinctOutcomes ==
  cnv_run.done =>
    \A i, j \in 1..Len(cnv_run.lookups) :
       (Absent(cnv_run.lookups[i].pan_number) /\ Bedless(cnv_run.lookups[j].pan_number)) =>
          <<cnv_run.lookups[i].raised, cnv_run.lookups[i].value>>
            # <<cnv_run.lookups[j].raised, cnv_run.lookups[j].value>>

\* C19: in a run, of either generator, whose script could be opened, a pan
\* number that is in the panel table without CNV bed file gets no command,
\* every other pan number of the run with a configured bed file gets exactly
\* one, and the commands are in ascending order of pan number.
C19_BedlessSkippedAlone ==
  \A run \in {cnv_run, legacy_cnv_run} :
    (run.done /\ cnv_open_ok) =>
      \A p \in cnv_pan_numbers :
         Bedless(p) =>
           /\ CommandsFor(run, p) = {}
           /\ \A q \in cnv_pan_numbers \ {p} :
                 Configured(q) => Cardinality(CommandsFor(run, q)) = 1
           /\ Ascending(run)

\* C20: in a run of cnv.py whose script could be opened, a pan number
\* absent from the panel table gets no command and every other pan number of
\* the run with a configured bed file, before or after it in the order, gets
\* its command.
C20_AbsentFailsAlone ==
  (legacy_cnv_run.done /\ cnv_open_ok) =>
    \A p \in cnv_pan_numbers :
       Absent(p) =>
         /\ CommandsFor(legacy_cnv_run, p) = {}
         /\ \A q \in cnv_pan_numbers \ {p} :
               Configured(q) => Cardinality(CommandsFor(legacy_cnv_run, q)) = 1

(* ======================================================================= *)
(*                Properties of the pairers, one per run                   *)
(* ======================================================================= *)

\* The well-formed records whose (transformed) name fails the suffix test.
Mismatched(files_data, suffix) ==
  {i \in 1..Len(files_data) :
     /\ WellFormed(files_data[i])
     /\ ~EndsWith(ApplyTransform(base_name_transform, files_data[i].name), suffix)}

\* files_data without the records at the positions in S, in the same order.
RECURSIVE WithoutFrom(_, _, _)
WithoutFrom(files_data, S, i) ==
  IF i > Len(files_data) THEN <<>>
  ELSE (IF i \in S THEN <<>> ELSE <<files_data[i]>>) \o WithoutFrom(files_data, S, i + 1)

Without(files_data, S) == WithoutFrom(files_data, S, 1)

\* What a pairer reports: the pairs and the two counts.
Tallies(result) ==
  <<result.pairs, result.unpaired_primary_count, result.orphaned_secondary_count>>

\* The ids on one side (1: primary, 2: secondary) of the matched pairs.
PairedIds(result, side) == {result.pairs[k][side] : k \in 1..Len(result.pairs)}

\* The records excluded for their suffix are in no pair and in no count, and
\* the result is the one the other records give alone.
ExcludesMismatched(result, alone) ==
  /\ \A i \in Mismatched(primary_files_data, primary_suffix) :
        primary_files_data[i].id \notin PairedIds(result, 1)
  /\ \A i \in Mismatched(secondary_files_data, secondary_suffix) :
        secondary_files_data[i].id \notin PairedIds(result, 2)
  /\ Len(result.pairs) + result.unpaired_primary_count
       <= Cardinality(Accepted(primary_files_data, primary_suffix))
  /\ Len(result.pairs) + result.orphaned_secondary_count
       <= Cardinality(Accepted(secondary_files_data, secondary_suffix))
  /\ Tallies(result) = Tallies(alone)

\* C21: a record whose (transformed) name does not end with the expected
\* suffix is excluded from its set: it is in no matched pair and in neither
\* the unpaired-primary nor the orphaned-secondary count, and the other
\* records are paired as they are without it (_pair_dx_files, and cov.py's
\* _find_bam_bai_pairs).
C21_SuffixMismatchExcluded ==
  LET primary_rest   == Without(primary_files_data,
                                Mismatched(primary_files_data, primary_suffix))
      secondary_rest == Without(secondary_files_data,
                                Mismatched(secondary_files_data, secondary_suffix))
  IN /\ pair_pc = "returned" =>
          ExcludesMismatched(pair_result,
            _pair_dx_files(primary_rest, primary_suffix,
                           secondary_rest, secondary_suffix, base_name_transform))
     /\ legacy_pc = "cov" =>
          ExcludesMismatched(legacy_result,
            Cov_find_bam_bai_pairs(primary_rest, secondary_rest))

C21_Witness ==
  /\ pair_pc = "returned"
  /\ Mismatched(primary_files_data, primary_suffix) # {}
  /\ Mismatched(secondary_files_data, secondary_suffix) # {}
  /\ Len(pair_result.pairs) = 1

\* The base name fastqmatchpair.py derives from a name: the read token of
\* the side replaced by "_R#.", a trailing ".fastq.gz" cut off.
FastqBaseName(name, read_token) ==
  LET replaced == Replace(name, read_token, RHashToken)
  IN IF EndsWith(replaced, DotFastqGz) THEN DropLast(replaced, FastqGzLen) ELSE replaced

WellFormedAt(files_data) == {i \in 1..Len(files_data) : WellFormed(files_data[i])}

\* The id of the last record, among those at the positions in S, that
\* derives the base name b.
LastId(files_data, S, base(_), b) ==
  LET last == CHOOSE i \in S :
                /\ base(files_data[i]) = b
                /\ \A j \in S : base(files_data[j]) = b => j <= i
  IN files_data[last].id

\* Both dicts hold, for every base name, the id of the last record deriving
\* it, and the pairs are made of these ids.
KeepsLast(result, P, pbase(_), S, sbase(_)) ==
  /\ \A i \in P :
        LET b == pbase(primary_files_data[i])
        IN DictGet(result.primary_files, b) = LastId(primary_files_data, P, pbase, b)
  /\ \A i \in S :
        LET b == sbase(secondary_files_data[i])
        IN DictGet(result.secondary_files, b) = LastId(secondary_files_data, S, sbase, b)
  /\ \A k \in 1..Len(result.pairs) :
        \E i \in P :
           LET b == pbase(primary_files_data[i])
           IN /\ \E j \in S : sbase(secondary_files_data[j]) = b
              /\ result.pairs[k] = <<LastId(primary_files_data, P, pbase, b),
                                     LastId(secondary_files_data, S, sbase, b)>>

\* C22: when two records of one list derive the same base name, the id kept
\* for it, and used in its matched pair, is that of the later record, and
\* the pairer returns (_pair_dx_files, and fastqmatchpair.py's
\* find_and_pair_fastq_files).
C22_LaterRecordWins ==
  /\ pair_pc = "returned" =>
        KeepsLast(pair_result,
                  Accepted(primary_files_data, primary_suffix),
                  LAMBDA item : BaseName(item, primary_suffix),
                  Accepted(secondary_files_data, secondary_suffix),
                  LAMBDA item : BaseName(item, secondary_suffix))
  /\ legacy_pc = "fastqmatchpair" =>
        KeepsLast(legacy_result,
                  WellFormedAt(primary_files_data),
                  LAMBDA item : FastqBaseName(item.name, R1Token),
                  WellFormedAt(secondary_files_data),
                  LAMBDA item : FastqBaseName(item.name, R2Token))

C22_Witness ==
  /\ pair_pc = "returned"
  /\ Len(primary_files_data) = 2 /\ Len(secondary_files_data) = 2
  /\ Accepted(primary_files_data, primary_suffix) = {1, 2}
  /\ Accepted(secondary_files_data, secondary_suffix) = {1, 2}
  /\ primary_files_data[1].name = primary_files_data[2].name
  /\ secondary_files_data[1].name = secondary_files_data[2].name
  /\ pair_result.pairs = << <<primary_files_data[2].id, secondary_files_data[2].id>> >>

\* The records that lack 'id' or 'describe'/'name'.
Malformed(files_data) == {i \in 1..Len(files_data) : ~WellFormed(files_data[i])}

\* The malformed records leave no trace but their warning: the dicts, the
\* pairs and the counts are those the well-formed records give alone, and
\* every well-formed record that passes the suffix test is in its dict.
SkipsMalformed(result, alone) ==
  /\ result.primary_files = alone.primary_files
  /\ result.secondary_files = alone.secondary_files
  /\ Tallies(result) = Tallies(alone)
  /\ \A i \in Accepted(primary_files_data, primary_suffix) :
        DictHas(result.primary_files, BaseName(primary_files_data[i], primary_suffix))
  /\ \A i \in Accepted(secondary_files_data, secondary_suffix) :
        DictHas(result.secondary_files, BaseName(secondary_files_data[i], secondary_suffix))
  /\ \A i \in Malformed(primary_files_data) :
        Warned(result, {"missing_key"}, "primary",
               primary_files_data[i].id, primary_files_data[i].name)
  /\ \A i \in Malformed(secondary_files_data) :
        Warned(result, {"missing_key"}, "secondary",
               secondary_files_data[i].id, secondary_files_data[i].name)

\* C23: a record without 'id' or without 'describe'/'name' is skipped where
\* it stands: the pairer returns, and every well-formed record of the list
\* is entered in its set and paired as it is without the malformed ones
\* (_pair_dx_files, and picard.py's _find_sorted_bams).
C23_MalformedSkippedLocally ==
  /\ pair_pc = "returned" =>
        SkipsMalformed(pair_result,
          _pair_dx_files(
            Without(primary_files_data, Malformed(primary_files_data)), primary_suffix,
            Without(secondary_files_data, Malformed(secondary_files_data)), secondary_suffix,
            base_name_transform))
  /\ legacy_pc = "picard" =>
        /\ legacy_result.bam_files =
             _find_sorted_bams(
               Without(primary_files_data, Malformed(primary_files_data))).bam_files
        /\ \A i \in Accepted(primary_files_data, DotBam) :
              \E k \in 1..Len(legacy_result.bam_files) :
                 legacy_result.bam_files[k] = primary_files_data[i].id

C23_Witness ==
  /\ pair_pc = "returned"
  /\ Len(primary_files_data) = 2 /\ Len(secondary_files_data) = 2
  /\ Malformed(primary_files_data) = {1}
  /\ Malformed(secondary_files_data) = {1}
  /\ pair_result.pairs = << <<primary_files_data[2].id, secondary_files_data[2].id>> >>

\* C25: with the identity function as name transform the file pairer gives
\* the pairs and the counts it gives without a transform, for every input.
C25_IdentityTransform ==
  pair_pc = "returned" =>
    /\ base_name_transform = "identity" =>
          Tallies(pair_result) =
            Tallies(_pair_dx_files(primary_files_data, primary_suffix,
                                   secondary_files_data, secondary_suffix, "none"))
    /\ base_name_transform = "none" =>
          Tallies(pair_result) =
            Tallies(_pair_dx_files(primary_files_data, primary_suffix,
                                   secondary_files_data, secondary_suffix, "identity"))

C25_Witness ==
  /\ pair_pc = "returned"
  /\ base_name_transform = "identity"
  /\ primary_suffix = R1FastqGz
  /\ Len(pair_result.pairs) = 1
  /\ pair_result.unpaired_primary_count = 1

\* C26: pairing with an empty primary or an empty secondary listing returns:
\* no pair is made, nothing is counted on the empty side and every base name
\* of the other side is counted; with both listings empty there is no pair,
\* both counts are 0 and nothing is printed.
C26_EmptyListings ==
  pair_pc = "returned" =>
    /\ primary_files_data = <<>> =>
          /\ pair_result.pairs = <<>>
          /\ pair_result.unpaired_primary_count = 0
          /\ pair_result.orphaned_secondary_count =
               Cardinality(BaseNames(secondary_files_data, secondary_suffix))
    /\ secondary_files_data = <<>> =>
          /\ pair_result.pairs = <<>>
          /\ pair_result.orphaned_secondary_count = 0
          /\ pair_result.unpaired_primary_count =
               Cardinality(BaseNames(primary_files_data, primary_suffix))
    /\ (primary_files_data = <<>> /\ secondary_files_data = <<>>) =>
          /\ Tallies(pair_result) = << <<>>, 0, 0 >>
          /\ pair_result.stderr = <<>>

C26_Witness ==
  /\ pair_pc = "returned"
  /\ primary_files_data = <<>>
  /\ secondary_files_data = <<>>
  /\ Tallies(pair_result) = << <<>>, 0, 0 >>

(* ======================================================================= *)
(*            Properties of sample processing, second part                 *)
(* ======================================================================= *)

\* Where a batch token starts: "NGS", a digit, and alphanumerics up to an
\* underscore or the end of the name.
BatchStarts(s) ==
  {i \in 1..Len(s) :
     /\ MatchAt(s, i, NGS)
     /\ i + 3 <= Len(s) /\ IsDigit(s[i + 3])
     /\ \E e \in (i + 3)..Len(s) :
           /\ \A k \in (i + 3)..e : IsAlnum(s[k])
           /\ e = Len(s) \/ s[e + 1] = "_"}

\* t is the first batch token of s.
FirstBatchToken(s, t) ==
  /\ BatchStarts(s) # {}
  /\ LET i == CHOOSE k \in BatchStarts(s) : \A m \in BatchStarts(s) : k <= m
         e == i + Len(t) - 1
     IN /\ Len(t) >= 4
        /\ MatchAt(s, i, t)
        /\ \A k \in 4..Len(t) : IsAlnum(t[k])
        /\ e = Len(s) \/ s[e + 1] = "_"

\* C24: for a sample name with run number and Pan code, the batch is the
\* first match of "NGS" + digits + alphanumerics that an underscore or the
\* end of the name terminates; a name without such a token is rejected with
\* the batch reason and gets no command: no fallback batch is substituted.
C24_BatchRule ==
  [][(/\ sample_idx' = sample_idx + 1
      /\ ~NoRunNumber(SampleName(sample_idx + 1))
      /\ ~NoPanCode(SampleName(sample_idx + 1))) =>
       LET s == SampleName(sample_idx + 1)
       IN /\ BatchStarts(s) = {} =>
               /\ failures_csv' =
                    Append(failures_csv,
                           FailureRow(s, "Could not detect batch information"))
               /\ failed_count' = failed_count + 1
               /\ processed_count' = processed_count
               /\ output_file' = output_file
               /\ stdout' = stdout
          /\ BatchStarts(s) # {} =>
               /\ failures_csv' = failures_csv
               /\ output_file' # output_file =>
                    /\ Len(stdout') = Len(stdout) + 1
                    /\ stdout'[Len(stdout')].sample_name = s
                    /\ FirstBatchToken(s, stdout'[Len(stdout')].batch)]_vars

\* "R134_Pan999" was rejected for its batch, then "NGS1-x_NGS22B_R134_Pan9"
\* was accepted with batch NGS22B.
C24_Witness ==
  /\ sample_idx = 2
  /\ SampleName(1) = Sample_NoBatch
  /\ failures_csv = <<FailureRow(Sample_NoBatch, "Could not detect batch information")>>
  /\ SampleName(2) = Sample_TwoBatches
  /\ Len(stdout) = 1
  /\ stdout[1].batch = <<"N", "G", "S", "2", "2", "B">>
  /\ Len(output_file) = 1

(* ----------------------- Properties of a whole run ---------------------- *)

\* _initialize_output_file has returned True in this run.
Initialised ==
  /\ wf_pc \in {"failures", "samples", "read", "loop", "summary", "returned",
                "returned_early"}
  /\ run_env.project
  /\ run_env.output_init = "ok"

\* The samples of the list whose commands the script holds: positions of
\* handled samples, in ascending order, one for each command.
CommandPositions ==
  {f \in [1..Len(output_file) -> 1..sample_idx] :
     /\ \A j \in 1..Len(output_file) :
           /\ output_file[j].sample_name = SampleName(f[j])
           /\ ~IsRejected(SampleName(f[j]))
     /\ \A j, k \in 1..Len(output_file) : j < k => f[j] < f[k]}

\* C27: once the script has been initialised it consists of the header,
\* written once over whatever the file held before, followed by one run
\* command for each sample counted as processed, in the order of the sample
\* list; an iteration that counts its sample as failed leaves the commands
\* as they are, and an iteration that counts it as processed appends the
\* command of that sample behind them; no other step touches the script.
C27_ScriptIsHeaderAndCommands ==
  /\ [](Initialised =>
          /\ script_head = "header"
          /\ Len(output_file) = processed_count
          /\ CommandPositions # {})
  /\ [][Initialised =>
          /\ script_head' = script_head
          /\ \/ /\ output_file' = output_file
                /\ processed_count' = processed_count
             \/ /\ wf_pc = "loop"
                /\ processed_count' = processed_count + 1
                /\ failed_count' = failed_count
                /\ Len(output_file') = Len(output_file) + 1
                /\ SubSeq(output_file', 1, Len(output_file)) = output_file
                /\ output_file'[Len(output_file')].sample_name =
                     SampleName(sample_idx + 1)]_vars

\* A run over a script of an earlier run has returned: of its two samples
\* the first was processed and the second, a rejected one, counted as failed.
C27_Witness ==
  /\ wf_pc = "returned"
  /\ Initialised
  /\ run_env.prior_script = "previous"
  /\ sample_idx = 2
  /\ processed_count = 1
  /\ failed_count = 1
  /\ IsRejected(SampleName(2))
  /\ Len(output_file) = 1

(* --------------- Properties of sample processing, third part ------------ *)

\* The parameters of a run command that the claims speak of.
Params(command) ==
  [prs_skip |-> command.prs_skip,
   polyedge_params |-> command.polyedge_params,
   cnv_stage_skip |-> command.cnv_stage_skip,
   variant_bed |-> command.variant_bed,
   coverage_bed |-> command.coverage_bed]

\* The accepted name s with its batch token and its Pan code blanked.
Masked(s) == WithTokens(s, <<"<batch>">>, <<"<pan>">>)

\* Two accepted names that differ at most in Pan code and batch token.
OnlyTokensDiffer(s, t) ==
  TokensApart(s) /\ TokensApart(t) /\ Masked(s) = Masked(t)

SameRunAndControl(s, t) ==
  /\ r_number(s) = r_number(t)
  /\ Contains(s, NA12878) <=> Contains(t, NA12878)

\* The statement of C28 as made: the commands of two accepted names that
\* differ only in Pan code or batch token have the same parameters.
C28_Original ==
  \A j, k \in 1..Len(output_file) :
     OnlyTokensDiffer(output_file[j].sample_name, output_file[k].sample_name) =>
        Params(output_file[j]) = Params(output_file[k])

\* C28: the bed files of every command are the Pan5272 files, and the
\* commands of two accepted names with the same run number that both hold,
\* or both lack, "NA12878" have the same PRS, PolyEdge, vcf_eval and
\* bed-file parameters, whatever their Pan codes and batch tokens.
C28_ParamsFromRunAndControl ==
  /\ \A k \in 1..Len(output_file) :
        /\ output_file[k].variant_bed = "Pan5272_data.bed"
        /\ output_file[k].coverage_bed = "Pan5272_sambamba.bed"
  /\ \A j, k \in 1..Len(output_file) :
        SameRunAndControl(output_file[j].sample_name, output_file[k].sample_name) =>
           Params(output_file[j]) = Params(output_file[k])

\* The script holds the commands of "NGS001_R134_Pan999" and of
\* "NGS002_R134_Pan5", which differ in batch token and Pan code only; both
\* enable PRS.
C28_Witness ==
  /\ Len(output_file) = 2
  /\ output_file[1].sample_name = Sample_R134
  /\ output_file[2].sample_name = Sample_R134_Other
  /\ OnlyTokensDiffer(Sample_R134, Sample_R134_Other)
  /\ SearchBatch(Sample_R134) # SearchBatch(Sample_R134_Other)
  /\ SearchPanCode(Sample_R134) # SearchPanCode(Sample_R134_Other)
  /\ output_file[1].prs_skip = "false"
  /\ output_file[2].prs_skip = "false"

(* --------------------- Properties of generate() ------------------------- *)

\* C29: every project ID that a file search was run with, and every
\* project ID that a generated command names, starts with "project-",
\* whether it was typed at the prompt or given as the argument.
C29_ProjectIdPrefix ==
  /\ \A k \in 1..Len(dx_find_project) :
        StartsWith(dx_find_project[k], ProjectPrefix)
  /\ \A k \in 1..Len(generated_commands) :
        StartsWith(generated_commands[k].dest, ProjectPrefix)

\* The part of C29 that holds: a project ID typed at the prompt reaches the
\* file search and the commands only with the prefix.
C29_PromptedProjectIdPrefix ==
  Len(sys_argv) # 2 => C29_ProjectIdPrefix

\* _extract_samples_from_dx_file has returned the path of the temporary file.
ExtractionSucceeded ==
  /\ Initialised
  /\ run_env.mode = "dxfile"
  /\ wf_pc \in {"read", "loop", "summary", "returned", "returned_early"}
  /\ \A k \in 1..Len(warnings) :
        warnings[k] \notin {"Failed to execute dx cat",
                            "No samples found in the DNAnexus file"}

Printed(message) == \E k \in 1..Len(warnings) : warnings[k] = message

====
